---------------------------- MODULE Spec2Model ----------------------------
(***************************************************************************)
(* stutter, the small lisp interpreter of src/src/sipd.c (lines 700-1466), *)
(* with the scanner of src/src/psplot.c.                                   *)
(*                                                                         *)
(* The C globals are the variables.  Every C function is an operator that  *)
(* takes the machine state s (a record of the globals) and returns         *)
(* [s |-> the state after the call, v |-> the value returned].  One action *)
(* is one pass through the body of main's while(1) loop.                   *)
(*                                                                         *)
(* A cell reference is an index of the heap array; NULL is 0.  The car     *)
(* slot is a union in the C code (cell pointer, name string, function      *)
(* pointer): a cell keeps the three readings apart, and an assignment      *)
(* through one reading overwrites the other two (car = Wild says that the  *)
(* slot holds bits that are no cell pointer).                              *)
(***************************************************************************)
EXTENDS Integers, Sequences, FiniteSets, TLC

VARIABLES
  heap,           \* CELL *heap: the array of cells
  heap_size,      \* int heap_size (option -heap)
  init,           \* static int init of new_cell
  free_list,      \* CELL *free_list
  binding_list,   \* CELL *binding_list
  protect_table,  \* CELL **protect_table, entries 1..protect_used
  protect_used,   \* int protect_used
  nil_cell, quote_cell, error_cell, true_cell,
  scan_ptr,       \* scan->ptr: the tokens left on the current input line
  stdin_eof,      \* fgets on stdin has returned NULL
  status,         \* "run", or how the process ended
  tty,            \* isatty(0)
  trace,          \* what the last pass through main's loop did, in order
  nread           \* passes through main's loop so far

vars == << heap, heap_size, init, free_list, binding_list, protect_table,
           protect_used, nil_cell, quote_cell, error_cell, true_cell,
           scan_ptr, stdin_eof, status, tty, trace, nread >>

----------------------------------------------------------------------------
(* Bounds of the model. *)

\* heap sizes tried for the option -heap
HeapSmall == 47
HeapLarge == 72
HeapMid == 50
HeapWide == 54
\* passes through main's loop
MaxInputs == 2
\* calls of eval_lisp, or of print_lisp, inside one another that the C stack
\* has room for
MaxNest == 5

NULL == 0
Wild == -1

----------------------------------------------------------------------------
(* The machine state as a record, and the shape of results. *)

Ret(s, v) == [s |-> s, v |-> v]

Running(s) == s.status = "run"

\* use of a null or wild pointer: the process is killed
Crash(s) == [s EXCEPT !.status = "segv"]

IsCell(s, c) == c \in 1..s.heap_size

\* what the process does is recorded while it runs
Emit(s, e) == IF Running(s) THEN [s EXCEPT !.trace = Append(@, e)] ELSE s


----------------------------------------------------------------------------
(* Cells: typedef struct CELL_STRUCT and the handy macros. *)

\* what xmalloc hands out for one cell before anything is stored in it:
\* the mark bit is whatever the memory held
RawCell(junk) ==
  [type |-> "LAMBDA", mark |-> junk, car |-> NULL, cdr |-> NULL,
   name |-> "", func |-> ""]

cell_car(s, c) == s.heap[c].car
cell_cdr(s, c) == s.heap[c].cdr
cell_type(s, c) == s.heap[c].type
cell_mark(s, c) == s.heap[c].mark

\* the car slot read as a char *: the name when one is stored there,
\* otherwise the bytes of whatever the slot points to, which spell no name
cell_name(s, c) ==
  IF s.heap[c].name # "" THEN s.heap[c].name ELSE "<bytes>"

\* reading the slot as a string dereferences it: a null slot cannot be read
NameReadable(s, c) == s.heap[c].name # "" \/ s.heap[c].car # NULL

cell_func(s, c) == s.heap[c].func

cell_car_assign(s, c, v) ==
  [s EXCEPT !.heap[c].car = v, !.heap[c].name = "", !.heap[c].func = ""]
cell_cdr_assign(s, c, v) == [s EXCEPT !.heap[c].cdr = v]
cell_name_assign(s, c, n) ==
  [s EXCEPT !.heap[c].car = Wild, !.heap[c].name = n, !.heap[c].func = ""]
cell_func_assign(s, c, f) ==
  [s EXCEPT !.heap[c].car = Wild, !.heap[c].func = f, !.heap[c].name = ""]

----------------------------------------------------------------------------
(* The collector. *)

\* The cells that mark sets the bit of, starting from the cells of frontier:
\* mark returns at once on NULL and on a marked cell, and goes on to the car
\* and the cdr of a LAMBDA or LIST cell.  A reference that is neither NULL
\* nor a cell is kept in the result: mark reads through it.
Kids(s, seen, frontier) ==
  {c \in UNION {{cell_car(s, f), cell_cdr(s, f)} :
                  f \in {g \in frontier :
                           IsCell(s, g)
                           /\ cell_type(s, g) \in {"LAMBDA", "LIST"}}}
              \ (seen \cup frontier) :
     c # NULL /\ (IsCell(s, c) => cell_mark(s, c) = 0)}

RECURSIVE Reach(_, _, _)
Reach(s, seen, frontier) ==
  IF frontier = {} THEN seen
  ELSE Reach(s, seen \cup frontier, Kids(s, seen, frontier))

\* mark(cell) for every cell of cells; the bits it leaves set do not depend
\* on the order of the calls
mark(s, cells) ==
  IF ~Running(s) THEN s
  ELSE
    LET start == {c \in cells : c # NULL
                                  /\ (IsCell(s, c) => cell_mark(s, c) = 0)}
        r == Reach(s, {}, start)
    IN IF \E c \in r : ~IsCell(s, c) THEN Crash(s)
       ELSE [s EXCEPT !.heap = [i \in 1..s.heap_size |->
                                  IF i \in r THEN [s.heap[i] EXCEPT !.mark = 1]
                                  ELSE s.heap[i]]]

\* #define unprotect() protect_used--
unprotect(s) ==
  IF ~Running(s) THEN s
  ELSE [s EXCEPT !.protect_used = @ - 1,
                 !.protect_table = IF Len(@) > 0 THEN SubSeq(@, 1, Len(@) - 1)
                                   ELSE @]

\* the table is realloc'ed when it is full, so a push always succeeds;
\* a push below entry 0 writes outside the table
protect(s, cell) ==
  IF ~Running(s) THEN s
  ELSE IF s.protect_used < 0 THEN Crash(s)
  ELSE [s EXCEPT !.protect_table = Append(@, cell),
                 !.protect_used = @ + 1]

\* a collector that marks from the binding list alone
RootsBindingOnly(s) == {s.binding_list}

\* mark(binding_list); for(i = 0; i < protect_used; i++) mark(protect_table[i]);
Roots(s) ==
  {s.binding_list} \cup {s.protect_table[i] : i \in 1..s.protect_used}

Max(S) == CHOOSE x \in S : \A y \in S : y <= x

\* a sweep that leaves the mark bits of the marked cells set
SweepLeavesMarks(s) ==
  IF ~Running(s) THEN Ret(s, 0)
  ELSE
    LET unmarked == {i \in 1..s.heap_size : cell_mark(s, i) = 0}
        Before(i) == {j \in unmarked : j < i}
        swept(i) ==
          IF i \in unmarked
          THEN [s.heap[i] EXCEPT
                  !.car = IF Before(i) = {} THEN s.free_list
                          ELSE Max(Before(i)),
                  !.name = "", !.func = "", !.mark = 0]
          ELSE s.heap[i]
    IN Ret([s EXCEPT !.heap = [i \in 1..s.heap_size |-> swept(i)],
                     !.free_list = IF unmarked = {} THEN @ ELSE Max(unmarked)],
           Cardinality(unmarked))

\* the sweep: for(cell = heap, i = 0; i < heap_size; cell++, i++).
\* The loop visits the cells in index order and pushes every unmarked one
\* on the front of the free list: an unmarked cell ends up pointing to the
\* unmarked cell visited before it (the first one to the old free list),
\* and the free list starts at the last unmarked cell.  v is count.
Sweep(s) ==
  IF ~Running(s) THEN Ret(s, 0)
  ELSE
    LET unmarked == {i \in 1..s.heap_size : cell_mark(s, i) = 0}
        Before(i) == {j \in unmarked : j < i}
        swept(i) ==
          IF i \in unmarked
          THEN [s.heap[i] EXCEPT
                  !.car = IF Before(i) = {} THEN s.free_list
                          ELSE Max(Before(i)),
                  !.name = "", !.func = "", !.mark = 0]
          ELSE [s.heap[i] EXCEPT !.mark = 0]
    IN Ret([s EXCEPT !.heap = [i \in 1..s.heap_size |-> swept(i)],
                     !.free_list = IF unmarked = {} THEN @ ELSE Max(unmarked)],
           Cardinality(unmarked))

\* a collector that returns when it has freed nothing
CollectedGoesOn(s, sw) ==
  IF ~Running(sw.s) THEN sw.s
  ELSE Emit(sw.s, [k |-> "gc", count |-> sw.v,
                   heap_before |-> s.heap,
                   binding_list |-> s.binding_list,
                   protect_table |-> s.protect_table,
                   protect_used |-> s.protect_used,
                   free_before |-> s.free_list,
                   heap_after |-> sw.s.heap,
                   free_after |-> sw.s.free_list])

\* the end of garbage_collect: sw is the heap of s marked and swept, with
\* count; if(!count) exit(1)
Collected(s, sw) ==
  IF ~Running(sw.s) THEN sw.s
  ELSE IF sw.v = 0
  THEN [Emit(Emit(sw.s, [k |-> "gc", count |-> sw.v,
                         heap_before |-> s.heap,
                         binding_list |-> s.binding_list,
                         protect_table |-> s.protect_table,
                         protect_used |-> s.protect_used,
                         free_before |-> s.free_list,
                         heap_after |-> sw.s.heap,
                         free_after |-> sw.s.free_list]),
             [k |-> "stderr", text |-> "Garbage collection failed!"])
        EXCEPT !.status = "exit1"]
  ELSE Emit(Emit(sw.s, [k |-> "gc", count |-> sw.v,
                        heap_before |-> s.heap,
                        binding_list |-> s.binding_list,
                        protect_table |-> s.protect_table,
                        protect_used |-> s.protect_used,
                        free_before |-> s.free_list,
                        heap_after |-> sw.s.heap,
                        free_after |-> sw.s.free_list]),
            [k |-> "stderr", text |-> "harvested cells."])

garbage_collect(s) ==
  IF ~Running(s) THEN s
  ELSE Collected(s, Sweep(mark(Emit(s, [k |-> "stderr",
                                        text |-> "Garbage collecting..."]),
                               Roots(s))))

----------------------------------------------------------------------------
(* Memory and name management. *)

\* if(!init): the first call sets the heap up, every cell on the free list
HeapSetup(s, junk) ==
  IF s.init THEN s
  ELSE [s EXCEPT !.init = TRUE,
                 !.heap = [i \in 1..s.heap_size |->
                             [RawCell(junk) EXCEPT
                                !.car = IF i < s.heap_size THEN i + 1 ELSE NULL]],
                 !.free_list = 1,
                 !.protect_table = << >>]

\* if(free_list == NULL) garbage_collect();
CollectIfEmpty(s) ==
  IF s.free_list = NULL THEN garbage_collect(s) ELSE s

\* the end of new_cell: the first cell of the free list is taken
Allocate(s, type) ==
  IF ~Running(s) THEN Ret(s, NULL)
  ELSE IF ~IsCell(s, s.free_list) THEN Ret(Crash(s), NULL)
  ELSE Ret(Emit([s EXCEPT !.free_list = cell_car(s, s.free_list),
                          !.heap[s.free_list] =
                             [type |-> type, mark |-> 0, car |-> NULL,
                              cdr |-> NULL, name |-> "", func |-> ""]],
                [k |-> "new_cell", cell |-> s.free_list, type |-> type]),
           s.free_list)

new_cell(s, type) ==
  IF ~Running(s) THEN Ret(s, NULL)
  ELSE Allocate(CollectIfEmpty(HeapSetup(s, s.junk)), type)

Printf(s, text) == Emit(s, [k |-> "printf", text |-> text])

\* For each cell the cell after it on a list linked through cdr, NULL when
\* there is none; Twice(f) is f applied twice.
NextNode(s) ==
  << >> \o [c \in 1..s.heap_size |->
             IF IsCell(s, cell_cdr(s, c)) THEN cell_cdr(s, c) ELSE NULL]

Twice(f) ==
  << >> \o [c \in 1..Len(f) |-> IF f[c] = NULL THEN NULL ELSE f[f[c]]]

\* seq, then the cells that follow the cells of seq, until the list ends
RECURSIVE Walk(_, _, _)
Walk(seq, f, n) ==
  IF Len(seq) >= n \/ seq[Len(seq)] = NULL THEN seq
  ELSE Walk(seq \o [i \in 1..Len(seq) |->
                      IF seq[i] = NULL THEN NULL ELSE f[seq[i]]],
            Twice(f), n)

\* the list cells of the list c, in order
Nodes(s, c) ==
  IF ~IsCell(s, c) THEN << >>
  ELSE SelectSeq(Walk(<< c >>, NextNode(s), s.heap_size + 1),
                 LAMBDA n : n # NULL)

\* a list of more cells than the heap has comes back to a cell of its own
Cyclic(s, nodes) == Len(nodes) > s.heap_size

\* a loop that never ends
Hang(s) == [s EXCEPT !.status = "hang"]

Min(S) == CHOOSE x \in S : \A y \in S : x <= y

\* the cdr of c is no cell and not NULL: the next pass of a loop reads
\* through it
WildCdr(s, c) == cell_cdr(s, c) # NULL /\ ~IsCell(s, cell_cdr(s, c))


\* The search loop of new_atom,
\*   while(current != nil_cell && current != NULL),
\* over the list cells nodes that current goes through.

\* the loop is left at the list cell c
AtomExit(s, c, name) ==
  \/ c = s.nil_cell
  \/ ~IsCell(s, cell_car(s, c))
  \/ ~IsCell(s, cell_car(s, cell_car(s, c)))
  \/ ~NameReadable(s, cell_car(s, cell_car(s, c)))
  \/ cell_name(s, cell_car(s, cell_car(s, c))) = name
  \/ WildCdr(s, c)

\* how it is left there
FindAtomAt(s, c, name) ==
  CASE c = s.nil_cell -> Ret(s, NULL)
    [] /\ c # s.nil_cell
       /\ \/ ~IsCell(s, cell_car(s, c))
          \/ ~IsCell(s, cell_car(s, cell_car(s, c)))
          \/ ~NameReadable(s, cell_car(s, cell_car(s, c))) ->
         Ret(Crash(s), NULL)
    [] /\ c # s.nil_cell
       /\ IsCell(s, cell_car(s, c))
       /\ IsCell(s, cell_car(s, cell_car(s, c)))
       /\ NameReadable(s, cell_car(s, cell_car(s, c)))
       /\ cell_name(s, cell_car(s, cell_car(s, c))) = name ->
         Ret(s, cell_car(s, cell_car(s, c)))
    [] OTHER -> Ret(Crash(s), NULL)

FindAtomExit(s, nodes, exits, name) ==
  IF exits # {} THEN FindAtomAt(s, nodes[Min(exits)], name)
  ELSE IF Cyclic(s, nodes) THEN Ret(Hang(s), NULL)
  ELSE Ret(s, NULL)

FindAtomIn(s, nodes, name) ==
  FindAtomExit(s, nodes,
               {i \in 1..Len(nodes) : AtomExit(s, nodes[i], name)}, name)

FindAtom(s, current, name) ==
  IF current = s.nil_cell \/ current = NULL THEN Ret(s, NULL)
  ELSE IF ~IsCell(s, current) THEN Ret(Crash(s), NULL)
  ELSE FindAtomIn(s, Nodes(s, current), name)

\* the end of new_atom: c5 is list = new_cell(CELL_LIST)
NewAtomLink(c5, current, atom, name) ==
  IF ~Running(c5.s) THEN Ret(c5.s, NULL)
  ELSE Ret(Emit([cell_cdr_assign(
                   cell_car_assign(unprotect(c5.s), c5.v, current),
                   c5.v, c5.s.binding_list)
                 EXCEPT !.binding_list = c5.v],
                [k |-> "new_atom", name |-> name, cell |-> atom,
                 found |-> FALSE]),
           atom)

\* c2 is atom = new_cell(CELL_ATOM)
NewAtomName(c2, current, name) ==
  IF ~Running(c2.s) THEN Ret(c2.s, NULL)
  ELSE NewAtomLink(
         new_cell(
           protect(
             cell_name_assign(
               cell_cdr_assign(cell_car_assign(c2.s, current, c2.v),
                               current, NULL),
               c2.v, name),
             current),
           "LIST"),
         current, c2.v, name)

\* c1 is current = new_cell(CELL_LIST)
NewAtomPair(c1, name) ==
  IF ~Running(c1.s) THEN Ret(c1.s, NULL)
  ELSE NewAtomName(new_cell(c1.s, "ATOM"), c1.v, name)

\* f is what the search loop found
NewAtomFound(s, f, name) ==
  IF ~Running(f.s) THEN f
  ELSE IF f.v # NULL
  THEN Ret(Emit(s, [k |-> "new_atom", name |-> name, cell |-> f.v,
                    found |-> TRUE]), f.v)
  \* Not found so insert it in front.
  ELSE NewAtomPair(new_cell(s, "LIST"), name)

\* the search loop, from current = binding_list
NewAtomSearch(s, name) ==
  NewAtomFound(s, FindAtom(s, s.binding_list, name), name)

new_atom(s, name) ==
  IF ~Running(s) THEN Ret(s, NULL)
  ELSE NewAtomSearch(Emit(s, [k |-> "intern", name |-> name]), name)

----------------------------------------------------------------------------
(* Value functions. *)

\* a cons that leaves the car of its cell as new_cell has set it
ConsFillCdrOnly(n, a, b) ==
  IF ~Running(n.s) THEN Ret(n.s, NULL)
  ELSE Ret(cell_cdr_assign(unprotect(unprotect(n.s)), n.v,
                           IF b = n.s.nil_cell THEN NULL ELSE b),
           n.v)

\* the end of cons: n is c = new_cell(CELL_LIST)
ConsFill(n, a, b) ==
  IF ~Running(n.s) THEN Ret(n.s, NULL)
  ELSE Ret(cell_cdr_assign(
             cell_car_assign(unprotect(unprotect(n.s)), n.v, a),
             n.v, IF b = n.s.nil_cell THEN NULL ELSE b),
           n.v)

\* a cons that takes any cell as its second argument
ConsUnchecked(s, a, b) ==
  IF ~Running(s) THEN Ret(s, NULL)
  ELSE IF a = s.error_cell \/ b = s.error_cell THEN Ret(s, s.error_cell)
  ELSE IF ~IsCell(s, b) THEN Ret(Crash(s), NULL)
  ELSE ConsFill(new_cell(protect(protect(s, a), b), "LIST"), a, b)

cons(s, a, b) ==
  IF ~Running(s) THEN Ret(s, NULL)
  ELSE IF a = s.error_cell \/ b = s.error_cell THEN Ret(s, s.error_cell)
  ELSE IF ~IsCell(s, b) THEN Ret(Crash(s), NULL)
  ELSE IF ~(cell_type(s, b) = "LIST" \/ b = s.nil_cell)
  THEN Ret(Printf(s, "Error: cons: second argument is not a list."),
           s.error_cell)
  ELSE ConsFill(new_cell(protect(protect(s, a), b), "LIST"), a, b)

\* a car for which nil is a cell like any other that is not a list
CarOfListsOnly(s, a, b) ==
  IF ~Running(s) THEN Ret(s, NULL)
  ELSE IF a = s.error_cell THEN Ret(s, s.error_cell)
  ELSE IF ~IsCell(s, a) THEN Ret(Crash(s), NULL)
  ELSE IF cell_type(s, a) # "LIST"
  THEN Ret(Printf(s, "Error: car: argument is not a list."), s.error_cell)
  ELSE Ret(s, cell_car(s, a))

car(s, a, b) ==
  IF ~Running(s) THEN Ret(s, NULL)
  ELSE IF a = s.error_cell THEN Ret(s, s.error_cell)
  ELSE IF a = s.nil_cell THEN Ret(s, s.nil_cell)
  ELSE IF ~IsCell(s, a) THEN Ret(Crash(s), NULL)
  ELSE IF cell_type(s, a) # "LIST"
  THEN Ret(Printf(s, "Error: car: argument is not a list."), s.error_cell)
  ELSE Ret(s, cell_car(s, a))

cdr(s, a, b) ==
  IF ~Running(s) THEN Ret(s, NULL)
  ELSE IF a = s.error_cell THEN Ret(s, s.error_cell)
  ELSE IF a = s.nil_cell THEN Ret(s, s.nil_cell)
  ELSE IF ~IsCell(s, a) THEN Ret(Crash(s), NULL)
  ELSE IF cell_type(s, a) # "LIST"
  THEN Ret(Printf(s, "Error: cdr: argument is not a list."), s.error_cell)
  ELSE IF cell_cdr(s, a) = NULL THEN Ret(s, s.nil_cell)
  ELSE Ret(s, cell_cdr(s, a))

\* car(x, NULL) and cdr(x, NULL) of the value x that a call has returned
CarOf(r) == car(r.s, r.v, NULL)
CdrOf(r) == cdr(r.s, r.v, NULL)

\* what a list cell of the binding list holds: its pair, and the atom and
\* the value of the pair
Entry(s, c) ==
  [node |-> c, pair |-> cell_car(s, c),
   atom |-> IF IsCell(s, cell_car(s, c))
            THEN cell_car(s, cell_car(s, c)) ELSE NULL,
   value |-> IF IsCell(s, cell_car(s, c))
             THEN cell_cdr(s, cell_car(s, c)) ELSE NULL]

Entries(s, nodes) == << >> \o [i \in 1..Len(nodes) |-> Entry(s, nodes[i])]

\* the binding list, front first
Env(s) == Entries(s, Nodes(s, s.binding_list))

\* The search loop of set, while(current != nil_cell && current != NULL),
\* over the list cells nodes that current goes through.

\* the loop is left at the list cell c
BindingExit(s, c, a) ==
  \/ c = s.nil_cell
  \/ ~IsCell(s, cell_car(s, c))
  \/ cell_car(s, cell_car(s, c)) = a
  \/ WildCdr(s, c)

\* how it is left there
FindBindingAt(s, c, a) ==
  CASE c = s.nil_cell -> Ret(s, NULL)
    [] c # s.nil_cell /\ ~IsCell(s, cell_car(s, c)) -> Ret(Crash(s), NULL)
    [] /\ c # s.nil_cell
       /\ IsCell(s, cell_car(s, c))
       /\ cell_car(s, cell_car(s, c)) = a ->
         Ret(s, cell_car(s, c))
    [] OTHER -> Ret(Crash(s), NULL)

FindBindingExit(s, nodes, exits, a) ==
  IF exits # {} THEN FindBindingAt(s, nodes[Min(exits)], a)
  ELSE IF Cyclic(s, nodes) THEN Ret(Hang(s), NULL)
  ELSE Ret(s, NULL)

FindBindingIn(s, nodes, a) ==
  FindBindingExit(s, nodes,
                  {i \in 1..Len(nodes) : BindingExit(s, nodes[i], a)}, a)

FindBinding(s, current, a) ==
  IF current = s.nil_cell \/ current = NULL THEN Ret(s, NULL)
  ELSE IF ~IsCell(s, current) THEN Ret(Crash(s), NULL)
  ELSE FindBindingIn(s, Nodes(s, current), a)

\* the end of set: c4 is list = new_cell(CELL_LIST)
SetLink(c4, current, a, b) ==
  IF ~Running(c4.s) THEN Ret(c4.s, NULL)
  ELSE LET linked == [cell_cdr_assign(
                          cell_car_assign(unprotect(c4.s), c4.v, current),
                          c4.v, c4.s.binding_list)
                        EXCEPT !.binding_list = c4.v]
       IN  Ret(Emit(linked,
                    [k |-> "set", atom |-> a, value |-> b, pair |-> current,
                     inserted |-> TRUE, env_before |-> Env(c4.s),
                     env |-> Env(linked)]),
               b)

\* c1 is current = new_cell(CELL_LIST)
SetPair(c1, a, b) ==
  IF ~Running(c1.s) THEN Ret(c1.s, NULL)
  ELSE SetLink(
         new_cell(
           protect(
             cell_cdr_assign(
               cell_car_assign(unprotect(unprotect(c1.s)), c1.v, a),
               c1.v, b),
             c1.v),
           "LIST"),
         c1.v, a, b)

\* f is what the search loop found
SetFound(s, f, a, b) ==
  IF ~Running(f.s) THEN f
  ELSE IF f.v # NULL
  THEN Ret(Emit(cell_cdr_assign(s, f.v, b),
                [k |-> "set", atom |-> a, value |-> b, pair |-> f.v,
                 inserted |-> FALSE, env_before |-> Env(s),
                 env |-> Env(cell_cdr_assign(s, f.v, b))]), b)
  \* Not found so insert it in front.
  ELSE SetPair(new_cell(protect(protect(Emit(s, [k |-> "set_insert",
                                                 atom |-> a, value |-> b,
                                                 type |-> cell_type(s, a),
                                                 env_before |-> Env(s)]),
                                        a), b),
                        "LIST"),
               a, b)

set(s, a, b) ==
  IF ~Running(s) THEN Ret(s, NULL)
  ELSE IF a = s.error_cell \/ b = s.error_cell THEN Ret(s, s.error_cell)
  ELSE IF ~IsCell(s, a) THEN Ret(Crash(s), NULL)
  ELSE IF cell_type(s, a) # "ATOM"
  THEN Ret(Emit(Printf(s, "Error: set: first argument is not an atom."),
                [k |-> "set_refused", atom |-> a, value |-> b,
                 type |-> cell_type(s, a), env_before |-> Env(s)]),
           s.error_cell)
  ELSE SetFound(s, FindBinding(s, s.binding_list, a), a, b)

equal(s, a, b) ==
  IF ~Running(s) THEN Ret(s, NULL)
  ELSE IF a # NULL /\ ~IsCell(s, a) THEN Ret(Crash(s), NULL)
  ELSE IF a # NULL /\ cell_type(s, a) = "ATOM" /\ a = b
  THEN Ret(s, s.true_cell)
  ELSE Ret(s, s.nil_cell)

----------------------------------------------------------------------------
(* Special functions. *)

\* a quote that returns the list of its arguments
QuoteArgs(s, expr) == Ret(s, expr)

quote(s, expr) == car(s, expr, NULL)

\* The check that the formal argument list is a simple list, while(c), over the list cells nodes that c
\* goes through.

\* the loop is left at the list cell c
SimpleExit(s, c) ==
  \/ ~IsCell(s, cell_car(s, c))
  \/ cell_type(s, cell_car(s, c)) # "ATOM"
  \/ WildCdr(s, c)

\* how it is left there: FALSE says that the list is not simple
SimpleListAt(s, c) ==
  CASE ~IsCell(s, cell_car(s, c)) -> Ret(Crash(s), FALSE)
    [] IsCell(s, cell_car(s, c)) /\ cell_type(s, cell_car(s, c)) # "ATOM" ->
         Ret(s, FALSE)
    [] OTHER -> Ret(Crash(s), FALSE)

SimpleListExit(s, nodes, exits) ==
  IF exits # {} THEN SimpleListAt(s, nodes[Min(exits)])
  ELSE IF Cyclic(s, nodes) THEN Ret(Hang(s), FALSE)
  ELSE Ret(s, TRUE)

SimpleListIn(s, nodes) ==
  SimpleListExit(s, nodes, {i \in 1..Len(nodes) : SimpleExit(s, nodes[i])})

SimpleList(s, c) ==
  IF c = NULL THEN Ret(s, TRUE)
  ELSE IF ~IsCell(s, c) THEN Ret(Crash(s), FALSE)
  ELSE SimpleListIn(s, Nodes(s, c))

\* a lambda that keeps whatever parameter list it is given
LambdaUnchecked(s, ufunc) ==
  IF ~Running(s) THEN Ret(s, NULL) ELSE Ret(s, ufunc)

\* the checks of lambda on the cell it has filled
LambdaCheck(s, ufunc) ==
  IF ~Running(s) THEN Ret(s, NULL)
  ELSE IF cell_car(s, ufunc) = s.error_cell
          \/ cell_cdr(s, ufunc) = s.error_cell
  THEN Ret(s, s.error_cell)
  ELSE IF ~IsCell(s, cell_car(s, ufunc)) THEN Ret(Crash(s), NULL)
  ELSE IF cell_type(s, cell_car(s, ufunc)) # "LIST"
          /\ cell_car(s, ufunc) # s.nil_cell
  THEN Ret(Printf(s, "Error: bad argument list supplied."), s.error_cell)
  ELSE IF cell_car(s, ufunc) = s.nil_cell THEN Ret(s, ufunc)
  ELSE IF ~Running(SimpleList(s, cell_car(s, ufunc)).s)
  THEN Ret(SimpleList(s, cell_car(s, ufunc)).s, NULL)
  ELSE IF ~SimpleList(s, cell_car(s, ufunc)).v
  THEN Ret(Printf(s, "Error: bad argument list supplied."), s.error_cell)
  ELSE Ret(s, ufunc)

\* the type of the cell that a value is, "" when it is no cell
TypeOf(s, v) == IF IsCell(s, v) THEN cell_type(s, v) ELSE ""

\* the types of the elements of the list c, << >> when c is no LIST cell
ElemTypes(s, c) ==
  IF IsCell(s, c) /\ cell_type(s, c) = "LIST"
  THEN << >> \o [i \in 1..Len(Nodes(s, c)) |->
                   TypeOf(s, cell_car(s, Nodes(s, c)[i]))]
  ELSE << >>

\* the state in which lambda starts its checks on the cell it has filled
LambdaDef(s, ufunc) ==
  Emit(s, [k |-> "lambda_def", d |-> s.depth, ufunc |-> ufunc,
           formals |-> cell_car(s, ufunc),
           type |-> TypeOf(s, cell_car(s, ufunc)),
           elem_types |-> ElemTypes(s, cell_car(s, ufunc))])

\* cell_cdr_assign(ufunc, car(cdr(expr, NULL), NULL)); r is the car
LambdaBody(r, ufunc) ==
  LambdaCheck(LambdaDef(cell_cdr_assign(r.s, ufunc, r.v), ufunc), ufunc)

\* cell_car_assign(ufunc, car(expr, NULL)); r is the car
LambdaFormals(r, ufunc, expr) ==
  LambdaBody(CarOf(cdr(cell_car_assign(r.s, ufunc, r.v), expr, NULL)), ufunc)

\* n is ufunc = new_cell(CELL_LAMBDA)
LambdaFill(n, expr) ==
  IF ~Running(n.s) THEN Ret(n.s, NULL)
  ELSE LambdaFormals(car(unprotect(n.s), expr, NULL), n.v, expr)

lambda(s, expr) ==
  IF ~Running(s) THEN Ret(s, NULL)
  ELSE LambdaFill(new_cell(protect(s, expr), "LAMBDA"), expr)

----------------------------------------------------------------------------
(* The evaluator. *)

\* The search loop of eval_atom, while(cell != NULL), over the list cells
\* nodes that cell goes through.

\* the loop is left at the list cell c
LookUpExit(s, c, expr) ==
  \/ ~IsCell(s, cell_car(s, c))
  \/ cell_car(s, cell_car(s, c)) = expr
  \/ WildCdr(s, c)

\* how it is left there
LookUpAt(s, c, expr) ==
  CASE ~IsCell(s, cell_car(s, c)) -> Ret(Crash(s), NULL)
    [] IsCell(s, cell_car(s, c)) /\ cell_car(s, cell_car(s, c)) = expr ->
         Ret(s, cell_car(s, c))
    [] OTHER -> Ret(Crash(s), NULL)

LookUpFirst(s, nodes, exits, expr) ==
  IF exits # {} THEN LookUpAt(s, nodes[Min(exits)], expr)
  ELSE IF Cyclic(s, nodes) THEN Ret(Hang(s), NULL)
  ELSE Ret(s, NULL)

LookUpIn(s, nodes, expr) ==
  LookUpFirst(s, nodes,
              {i \in 1..Len(nodes) : LookUpExit(s, nodes[i], expr)}, expr)

LookUp(s, cell, expr) ==
  IF cell = NULL THEN Ret(s, NULL)
  ELSE IF ~IsCell(s, cell) THEN Ret(Crash(s), NULL)
  ELSE LookUpIn(s, Nodes(s, cell), expr)

\* an eval_atom that reports an atom without a value twice
AtomValueTwice(s, f, expr) ==
  IF ~Running(f.s) THEN f
  ELSE IF f.v = NULL \/ cell_cdr(s, f.v) = NULL
  THEN IF ~NameReadable(s, expr) THEN Ret(Crash(s), NULL)
       ELSE Ret(Emit(Emit(s, [k |-> "printf", text |-> "Error: unbound atom",
                              atom |-> expr]),
                     [k |-> "printf", text |-> "Error: unbound atom",
                      atom |-> expr]), s.error_cell)
  ELSE Ret(s, cell_cdr(s, f.v))

\* f is the pair that the search loop found, or NULL
AtomValue(s, f, expr) ==
  IF ~Running(f.s) THEN f
  ELSE IF f.v = NULL \/ cell_cdr(s, f.v) = NULL
  THEN IF ~NameReadable(s, expr) THEN Ret(Crash(s), NULL)
       ELSE Ret(Emit(s, [k |-> "printf", text |-> "Error: unbound atom",
                         atom |-> expr]), s.error_cell)
  ELSE Ret(s, cell_cdr(s, f.v))

eval_atom(s, expr) ==
  IF ~Running(s) THEN Ret(s, NULL)
  ELSE AtomValue(Emit(s, [k |-> "lookup", d |-> s.depth, expr |-> expr,
                          env |-> Env(s)]),
                 LookUp(s, s.binding_list, expr), expr)

RECURSIVE eval_lisp(_, _)
RECURSIVE ArgLoop(_, _)

\* eval_lisp(x) of the value x that a call has returned
EvalOf(r) == eval_lisp(r.s, r.v)

\* an if that takes its second clause whatever the condition has given
IfBranchThen(r, then_expr, else_expr) ==
  IF r.s.status # "run" THEN Ret(r.s, NULL)
  ELSE eval_lisp(unprotect(r.s), then_expr)

\* the end of lisp_if: r is bool_rslt = eval_lisp(bool_expr)
IfBranch(r, then_expr, else_expr) ==
  CASE r.s.status # "run" -> Ret(r.s, NULL)
    [] r.s.status = "run" /\ r.v # r.s.nil_cell ->
         eval_lisp(unprotect(r.s), then_expr)
    [] OTHER -> eval_lisp(unprotect(r.s), else_expr)

\* lisp_if once the three clauses are taken out of expr
IfClauses(s, expr, bool_expr, then_expr, else_expr) ==
  IF ~Running(s) THEN Ret(s, NULL)
  ELSE IF bool_expr = s.error_cell \/ then_expr = s.error_cell
          \/ else_expr = s.error_cell
  THEN Ret(s, s.error_cell)
  ELSE IfBranch(
         eval_lisp(
           protect(Emit(s, [k |-> "if", d |-> s.depth,
                            bool_expr |-> bool_expr, then_expr |-> then_expr,
                            else_expr |-> else_expr]),
                   expr),
           bool_expr),
         then_expr, else_expr)

\* else_expr = car(cdr(cdr(expr, NULL), NULL), NULL)
IfElse(t, expr, bool_expr) ==
  IfClauses(CarOf(CdrOf(cdr(t.s, expr, NULL))).s, expr, bool_expr, t.v,
            CarOf(CdrOf(cdr(t.s, expr, NULL))).v)

\* then_expr = car(cdr(expr, NULL), NULL); b is bool_expr = car(expr, NULL)
IfThen(b, expr) == IfElse(CarOf(cdr(b.s, expr, NULL)), expr, b.v)

lisp_if(s, expr) ==
  IF ~Running(s) THEN Ret(s, NULL) ELSE IfThen(car(s, expr, NULL), expr)

\* cell_func(func)(a, b) for a value function
CallVFunc(s, f, a, b) ==
  CASE f = "car" -> car(s, a, b)
    [] f = "cdr" -> cdr(s, a, b)
    [] f = "cons" -> cons(s, a, b)
    [] f = "set" -> set(s, a, b)
    [] f = "equal" -> equal(s, a, b)
    [] OTHER -> Ret(Crash(s), NULL)

\* cell_func(func)(cell_cdr(expr)) for a special function
CallSFunc(s, f, expr) ==
  CASE f = "quote" -> quote(s, expr)
    [] f = "lambda" -> lambda(s, expr)
    [] f = "lisp_if" -> lisp_if(s, expr)
    [] OTHER -> Ret(Crash(s), NULL)

\* The first loop of eval_lambda: while(argn != NULL && argn != nil_cell).
\* L is the record of the locals [argn, argv, blist, cell, count].

\* an end of a pass that pushes the binding on the binding list at once
ArgNextEager(c, cell, L) ==
  IF ~Running(c.s) THEN Ret(c.s, L)
  ELSE ArgLoop([c.s EXCEPT !.binding_list = c.v],
         [argn |-> cell_cdr(c.s, L.argn),
          argv |-> IF L.argv # NULL THEN cell_cdr(c.s, L.argv) ELSE L.argv,
          blist |-> c.v, cell |-> cell, count |-> L.count + 1])

\* the end of a pass: c is blist = cons(bind, blist)
ArgNext(c, cell, L) ==
  IF ~Running(c.s) THEN Ret(c.s, L)
  ELSE IF L.argv # NULL /\ ~IsCell(c.s, L.argv) THEN Ret(Crash(c.s), L)
  ELSE ArgLoop(c.s,
         [argn |-> cell_cdr(c.s, L.argn),
          argv |-> IF L.argv # NULL THEN cell_cdr(c.s, L.argv) ELSE L.argv,
          blist |-> c.v, cell |-> cell, count |-> L.count + 1])

\* n is bind = new_cell(CELL_LIST)
ArgBind(n, cell, L) ==
  IF ~Running(n.s) THEN Ret(n.s, L)
  ELSE IF ~IsCell(n.s, L.argn) THEN Ret(Crash(n.s), L)
  ELSE ArgNext(
         cons(cell_cdr_assign(
                cell_car_assign(unprotect(unprotect(n.s)), n.v,
                                cell_car(n.s, L.argn)),
                n.v, cell),
              n.v, L.blist),
         cell, L)

\* e is cell, the value of the actual argument
ArgValue(e, L) ==
  CASE e.s.status # "run" -> Ret(e.s, L)
    [] e.s.status = "run" /\ L.argv # NULL /\ e.v = e.s.error_cell ->
         Ret(unprotect(Emit(e.s, [k |-> "arg_value", d |-> e.s.depth,
                                  v |-> e.v])),
             [L EXCEPT !.cell = e.v, !.count = @ * (-1)])
    [] OTHER ->
         ArgBind(new_cell(protect(Emit(e.s, [k |-> "arg_value",
                                             d |-> e.s.depth, v |-> e.v]),
                                  e.v),
                          "LIST"),
                 e.v, L)

\* eval_lisp(car(argv, NULL)); r is the car
ArgEval(r) ==
  eval_lisp(Emit(r.s, [k |-> "arg", d |-> r.s.depth, expr |-> r.v,
                       binding_list |-> r.s.binding_list]),
            r.v)

\* a first loop that takes a formal without an argument for an error
ArgLoopStrict(s, L) ==
  CASE ~Running(s) \/ L.argn = NULL \/ L.argn = s.nil_cell -> Ret(s, L)
    [] Running(s) /\ L.argn # NULL /\ L.argn # s.nil_cell /\ L.argv = NULL ->
         Ret(s, [L EXCEPT !.cell = s.error_cell, !.count = @ * (-1)])
    [] OTHER -> ArgValue(ArgEval(car(protect(s, L.blist), L.argv, NULL)), L)

ArgLoop(s, L) ==
  CASE ~Running(s) \/ L.argn = NULL \/ L.argn = s.nil_cell -> Ret(s, L)
    [] Running(s) /\ L.argn # NULL /\ L.argn # s.nil_cell /\ L.argv = NULL ->
         ArgValue(Ret(protect(s, L.blist), s.nil_cell), L)
    [] OTHER -> ArgValue(ArgEval(car(protect(s, L.blist), L.argv, NULL)), L)

\* the second loop: while(blist != NULL && blist != nil_cell)
RECURSIVE PushLoop(_, _)

\* a second loop that pushes nothing
PushLoopNone(s, blist) == s

\* c is cons(cell_car(blist), binding_list)
PushNext(c, blist) ==
  IF ~Running(c.s) THEN c.s
  ELSE PushLoop([c.s EXCEPT !.binding_list = c.v], blist)

PushLoop(s, blist) ==
  IF ~Running(s) \/ blist = NULL \/ blist = s.nil_cell THEN s
  ELSE IF ~IsCell(s, blist) THEN Crash(s)
  ELSE PushNext(cons(s, cell_car(s, blist), s.binding_list),
                cell_cdr(s, blist))

\* a third loop that pops nothing
PopLoopNone(s, i, count) == s

\* the third loop: for(i = 0; i < count; i++)
RECURSIVE PopLoop(_, _, _)
PopLoop(s, i, count) ==
  IF ~Running(s) \/ ~(i < count) THEN s
  ELSE IF ~IsCell(s, s.binding_list) THEN Crash(s)
  ELSE PopLoop([s EXCEPT !.binding_list = cell_cdr(s, s.binding_list)],
               i + 1, count)

\* the end of eval_lambda: s is the state after the three unprotect()
ApplyOut(s, v, expr, func, body) ==
  IF ~Running(s) THEN Ret(s, NULL)
  ELSE Ret(Emit(s, [k |-> "lambda_out", d |-> s.depth, expr |-> expr,
                    func |-> func, body |-> body, v |-> v,
                    binding_list |-> s.binding_list, env |-> Env(s)]),
           v)

\* b is cell, the value of the body or of the argument that failed
ApplyPop(b, count, expr, func, body) ==
  IF b.s.status # "run" THEN Ret(b.s, NULL)
  ELSE ApplyOut(unprotect(unprotect(unprotect(PopLoop(b.s, 0, count)))),
                b.v, expr, func, body)

\* s is the state after the second loop.
\* Stupid kludge: if we had an error then the count is negative.
ApplyBody(s, L, expr, func, body) ==
  CASE ~Running(s) -> Ret(s, NULL)
    [] Running(s) /\ ~body ->
         ApplyPop(Ret(Emit(s, [k |-> "lambda_bound", d |-> s.depth,
                               expr |-> expr, func |-> func, body |-> FALSE,
                               count |-> L.count * (-1),
                               binding_list |-> s.binding_list,
                               env |-> Env(s)]),
                      L.cell),
                  L.count * (-1), expr, func, body)
    [] Running(s) /\ body /\ ~IsCell(s, func) -> Ret(Crash(s), NULL)
    [] OTHER ->
         ApplyPop(eval_lisp(Emit(s, [k |-> "lambda_bound", d |-> s.depth,
                                     expr |-> expr, func |-> func,
                                     body |-> TRUE, count |-> L.count,
                                     binding_list |-> s.binding_list,
                                     env |-> Env(s)]),
                            cell_cdr(s, func)),
                  L.count, expr, func, body)

\* a is the state and the locals after the first loop
ApplyPush(a, expr, func) ==
  IF a.s.status # "run" THEN Ret(a.s, NULL)
  ELSE ApplyBody(PushLoop(protect(a.s, a.v.blist), a.v.blist), a.v, expr,
                 func, a.v.count >= 0 /\ a.v.cell # a.s.error_cell)

\* the atoms that argn goes through: the formals of func
Cars(s, nodes) == << >> \o [i \in 1..Len(nodes) |-> cell_car(s, nodes[i])]
Formals(s, func) ==
  IF cell_car(s, func) = s.nil_cell THEN << >>
  ELSE Cars(s, Nodes(s, cell_car(s, func)))

eval_lambda(s, expr, func) ==
  IF ~Running(s) THEN Ret(s, NULL)
  ELSE IF ~IsCell(s, func) \/ ~IsCell(s, expr) THEN Ret(Crash(s), NULL)
  ELSE ApplyPush(
         ArgLoop(protect(protect(Emit(s, [k |-> "lambda_in", d |-> s.depth,
                                          expr |-> expr, func |-> func,
                                          binding_list |-> s.binding_list,
                                          env |-> Env(s),
                                          names |-> Formals(s, func),
                                          name_types |->
                                            ElemTypes(s, cell_car(s, func)),
                                          body_expr |-> cell_cdr(s, func),
                                          formals |-> cell_car(s, func),
                                          actuals |-> cell_cdr(s, expr),
                                          arg_exprs |->
                                            Cars(s, Nodes(s,
                                                   cell_cdr(s, expr)))]),
                                 expr),
                         func),
                 [argn |-> cell_car(s, func), argv |-> cell_cdr(s, expr),
                  blist |-> s.nil_cell, cell |-> NULL, count |-> 0]),
         expr, func)

\* the return of eval_lisp at depth d
EvalOut(r, d, expr) ==
  IF r.s.status # "run" THEN r
  ELSE Ret(Emit([r.s EXCEPT !.depth = d - 1],
                [k |-> "eval_out", d |-> d, expr |-> expr, v |-> r.v,
                 type |-> TypeOf(r.s, r.v),
                 protect_used |-> r.s.protect_used]),
           r.v)

\* return(cell_func(func)(a, b)); b is the value of the second argument
EvalCall(b, a, func) ==
  CASE b.s.status # "run" -> Ret(b.s, NULL)
    [] b.s.status = "run" /\ ~IsCell(b.s, func) -> Ret(Crash(b.s), NULL)
    [] OTHER ->
         CallVFunc(Emit(unprotect(unprotect(b.s)),
                        [k |-> "vfunc", d |-> b.s.depth, func |-> func,
                         f |-> cell_func(b.s, func), a |-> a, b |-> b.v]),
                   cell_func(b.s, func), a, b.v)

\* b = eval_lisp(car(cdr(cell_cdr(expr), NULL), NULL)); a is the value of
\* the first argument
EvalSecond(a, expr, func) ==
  IF a.s.status # "run" THEN Ret(a.s, NULL)
  ELSE EvalCall(
         EvalOf(CarOf(cdr(protect(a.s, a.v), cell_cdr(a.s, expr), NULL))),
         a.v, func)

\* the argument expressions of the list expr: the cars of the cells that
\* follow its first cell
ArgExprs(s, expr) == Cars(s, Nodes(s, cell_cdr(s, expr)))

\* func is a cell that is not the error cell
Applicable(f) ==
  f.s.status = "run" /\ f.v # f.s.error_cell /\ IsCell(f.s, f.v)

\* f is func = eval_lisp(cell_car(expr))
EvalList(f, expr) ==
  CASE f.s.status # "run" -> f
    [] f.s.status = "run" /\ f.v = f.s.error_cell ->
         Ret(unprotect(f.s), f.v)
    [] f.s.status = "run" /\ f.v # f.s.error_cell /\ ~IsCell(f.s, f.v) ->
         Ret(Crash(f.s), NULL)
    [] Applicable(f) /\ cell_type(f.s, f.v) = "VFUNC" ->
         EvalSecond(EvalOf(car(Emit(f.s, [k |-> "vfunc_in", d |-> f.s.depth,
                                          func |-> f.v,
                                          args |-> ArgExprs(f.s, expr)]),
                               cell_cdr(f.s, expr), NULL)),
                    expr, f.v)
    [] Applicable(f) /\ cell_type(f.s, f.v) = "SFUNC" ->
         CallSFunc(Emit(unprotect(f.s),
                        [k |-> "sfunc", d |-> f.s.depth,
                         f |-> cell_func(f.s, f.v),
                         args |-> Nodes(f.s, cell_cdr(f.s, expr)),
                         exprs |-> ArgExprs(f.s, expr)]),
                   cell_func(f.s, f.v), cell_cdr(f.s, expr))
    [] Applicable(f) /\ cell_type(f.s, f.v) = "LAMBDA" ->
         eval_lambda(unprotect(f.s), expr, f.v)
    [] OTHER -> Ret(f.s, expr)

\* expr is a cell that is not the error cell
Evaluable(s, expr) ==
  Running(s) /\ expr # s.error_cell /\ IsCell(s, expr) /\ s.depth < MaxNest

\* the state on entry at depth d
EvalIn(s, d, expr) ==
  Emit([s EXCEPT !.depth = d],
       [k |-> "eval_in", d |-> d, expr |-> expr,
        type |-> cell_type(s, expr), protect_used |-> s.protect_used])

eval_lisp(s, expr) ==
  CASE ~Running(s) -> Ret(s, NULL)
    [] Running(s) /\ expr = s.error_cell -> Ret(s, s.error_cell)
    [] /\ Running(s) /\ expr # s.error_cell
       /\ (~IsCell(s, expr) \/ s.depth >= MaxNest) ->
         Ret(Crash(s), NULL)
    [] Evaluable(s, expr) /\ cell_type(s, expr) = "ATOM" ->
         EvalOut(eval_atom(EvalIn(s, s.depth + 1, expr), expr),
                 s.depth + 1, expr)
    [] Evaluable(s, expr) /\ cell_type(s, expr) = "LIST" ->
         EvalOut(EvalList(eval_lisp(protect(EvalIn(s, s.depth + 1, expr),
                                            expr),
                                    cell_car(s, expr)),
                          expr),
                 s.depth + 1, expr)
    [] OTHER -> EvalOut(Ret(EvalIn(s, s.depth + 1, expr), expr),
                        s.depth + 1, expr)

----------------------------------------------------------------------------
(* The scanner (src/src/psplot.c), on lines that are already cut into      *)
(* tokens: "(", ")", "'" and atom names.  The empty token is end of file.  *)

RECURSIVE scan_get_or_peek(_, _)
scan_get_or_peek(s, get_flag) ==
  IF s.scan_ptr = << >>
  THEN IF s.stdin = << >> THEN Ret([s EXCEPT !.stdin_eof = TRUE], "")
       ELSE scan_get_or_peek([s EXCEPT !.scan_ptr = Head(s.stdin),
                                       !.stdin = Tail(s.stdin)], get_flag)
  ELSE Ret(IF get_flag THEN [s EXCEPT !.scan_ptr = Tail(@)] ELSE s,
           Head(s.scan_ptr))

scan_get(s) == scan_get_or_peek(s, TRUE)
scan_peek(s) == scan_get_or_peek(s, FALSE)
scan_flush(s) == [s EXCEPT !.scan_ptr = << >>]

----------------------------------------------------------------------------
(* Parsing. *)

RECURSIVE parse(_)
RECURSIVE parse_list(_)

\* parse_list returns: r is what it returns
TailOut(r) ==
  IF ~Running(r.s) THEN r
  ELSE Ret(Emit(r.s, [k |-> "tail_out", v |-> r.v,
                      protect_used |-> r.s.protect_used]),
           r.v)

\* the state in which parse_list calls cons(expr, list)
TailCons(s, expr, list) ==
  Emit(s, [k |-> "tail_cons", head |-> expr, tail |-> list,
           cells |-> Reach(s, {}, {expr, list}),
           protect_used |-> s.protect_used])

\* return(cons(expr, list)); l is list = parse_list()
ListCons(l, expr) ==
  CASE l.s.status # "run" -> l
    [] l.s.status = "run" /\ l.v = l.s.error_cell ->
         TailOut(Ret(unprotect(l.s), l.v))
    [] OTHER -> TailOut(cons(TailCons(unprotect(l.s), expr, l.v), expr, l.v))

\* the state in which parse_list calls itself for the tail of the list
TailIn(s, expr) ==
  Emit(s, [k |-> "tail_in", head |-> expr, cells |-> Reach(s, {}, {expr}),
           protect_used |-> s.protect_used])

\* a parse_list that puts NULL on the protect stack in place of the head
ListRestUnprotected(e) ==
  IF e.s.status # "run" \/ e.v = e.s.error_cell THEN e
  ELSE ListCons(parse_list(TailIn(protect(e.s, NULL), e.v)), e.v)

\* e is expr = parse()
ListRest(e) ==
  IF e.s.status # "run" \/ e.v = e.s.error_cell THEN e
  ELSE ListCons(parse_list(TailIn(protect(e.s, e.v), e.v)), e.v)

parse_list(s) ==
  CASE ~Running(s) -> Ret(s, NULL)
    [] Running(s) /\ scan_peek(s).v = ")" -> Ret(scan_get(s).s, s.nil_cell)
    [] Running(s) /\ scan_peek(s).v = "" ->
         Ret(Printf(scan_peek(s).s, "parse error: unexpected EOF.\n"),
             s.error_cell)
    [] OTHER -> ListRest(parse(scan_peek(s).s))

\* return(cons(quote_cell, cons(expr, nil_cell))); c is the inner cons
QuoteCons(c) == cons(c.s, c.s.quote_cell, c.v)

\* e is expr = parse()
QuoteOf(e) ==
  IF ~Running(e.s) THEN e
  ELSE IF e.v # e.s.error_cell THEN QuoteCons(cons(e.s, e.v, e.s.nil_cell))
  ELSE e

parse(s) ==
  CASE ~Running(s) -> Ret(s, NULL)
    [] Running(s) /\ scan_get(s).v = "(" -> parse_list(scan_get(s).s)
    [] Running(s) /\ scan_get(s).v = "'" -> QuoteOf(parse(scan_get(s).s))
    [] Running(s) /\ scan_get(s).v = ")" ->
         Ret(scan_flush(Printf(scan_get(s).s, "parse error: unexpected ')'\n")),
             s.error_cell)
    [] Running(s) /\ scan_get(s).v = "" -> Ret(scan_get(s).s, NULL)
    [] OTHER -> new_atom(scan_get(s).s, scan_get(s).v)

----------------------------------------------------------------------------
(* Read, eval, print. *)

RECURSIVE print_lisp(_, _)

\* the loop of case CELL_LIST: while((c = cell_cdr(cell)) != NULL)
RECURSIVE PrintList(_, _)
PrintList(s, cell) ==
  IF ~Running(s) THEN s
  ELSE IF ~IsCell(s, cell) THEN Crash(s)
  ELSE IF cell_cdr(s, cell) # NULL
  THEN PrintList(Printf(print_lisp(s, cell_car(s, cell)), " "),
                 cell_cdr(s, cell))
  ELSE print_lisp(s, cell_car(s, cell))

\* switch(cell_type(cell))
PrintCell(s, cell) ==
  CASE cell_type(s, cell) = "LAMBDA" ->
         Printf(print_lisp(Printf(print_lisp(Printf(s, "(lambda "),
                                             cell_car(s, cell)), " "),
                           cell_cdr(s, cell)), ")")
    [] cell_type(s, cell) = "SFUNC" ->
         Printf(s, "<internal-special-function>")
    [] cell_type(s, cell) = "VFUNC" ->
         Printf(s, "<internal-value-function>")
    [] cell_type(s, cell) = "LIST" /\ Cyclic(s, Nodes(s, cell)) -> Hang(s)
    [] cell_type(s, cell) = "LIST" /\ ~Cyclic(s, Nodes(s, cell)) ->
         Printf(PrintList(Printf(s, "("), cell), ")")
    [] cell_type(s, cell) = "ATOM" /\ cell = s.error_cell -> s
    [] /\ cell_type(s, cell) = "ATOM" /\ cell # s.error_cell
       /\ ~NameReadable(s, cell) -> Crash(s)
    [] /\ cell_type(s, cell) = "ATOM" /\ cell # s.error_cell
       /\ NameReadable(s, cell) -> Printf(s, cell_name(s, cell))

\* the return of print_lisp
PrintOut(s) == IF ~Running(s) THEN s ELSE [s EXCEPT !.depth = @ - 1]

print_lisp(s, cell) ==
  IF ~Running(s) THEN s
  ELSE IF cell = NULL THEN Printf(s, "<NULL>")
  ELSE IF ~IsCell(s, cell) \/ s.depth >= MaxNest THEN Crash(s)
  ELSE PrintOut(PrintCell([s EXCEPT !.depth = @ + 1], cell))

\* the end of read_lisp: p is expr = parse()
ReadEcho(p) ==
  IF ~Running(p.s) THEN p
  ELSE IF p.v # NULL /\ ~p.s.tty
  THEN Ret(Printf(print_lisp(p.s, p.v), "\n"), p.v)
  ELSE p

read_lisp(s) == ReadEcho(parse(Printf(s, "> ")))

\* the calls of initialize, in order: the atom and what is bound to it
Primitives ==
  << [name |-> "nil", global |-> "nil_cell", type |-> "ATOM", f |-> ""],
     [name |-> "t", global |-> "true_cell", type |-> "ATOM", f |-> ""],
     [name |-> "<error>", global |-> "error_cell", type |-> "ATOM", f |-> ""],
     [name |-> "car", global |-> "", type |-> "VFUNC", f |-> "car"],
     [name |-> "cdr", global |-> "", type |-> "VFUNC", f |-> "cdr"],
     [name |-> "cons", global |-> "", type |-> "VFUNC", f |-> "cons"],
     [name |-> "set", global |-> "", type |-> "VFUNC", f |-> "set"],
     [name |-> "equal", global |-> "", type |-> "VFUNC", f |-> "equal"],
     [name |-> "quote", global |-> "quote_cell", type |-> "SFUNC",
      f |-> "quote"],
     [name |-> "lambda", global |-> "", type |-> "SFUNC", f |-> "lambda"],
     [name |-> "if", global |-> "", type |-> "SFUNC", f |-> "lisp_if"] >>

\* cell_func_assign(c, f) after the set that r is the result of
BindFunc(r, c, f) ==
  IF ~Running(r.s) THEN r.s ELSE cell_func_assign(r.s, c, f)

\* set(atom, c = new_cell(type)); c is the new cell
BindCell(c, atom, f) ==
  IF ~Running(c.s) THEN c.s ELSE BindFunc(set(c.s, atom, c.v), c.v, f)

\* set(new_atom(name), c); a is the atom
BindAtom(a, c, f) ==
  IF ~Running(a.s) THEN a.s ELSE BindFunc(set(a.s, a.v, c), c, f)

\* nil_cell = new_atom("nil"); set(nil_cell, nil_cell); and the like:
\* a is the atom, kept in the global p.global and bound to itself
BindSelf(a, p) ==
  IF ~Running(a.s) THEN a.s
  ELSE set([a.s EXCEPT ![p.global] = a.v], a.v, a.v).s

\* quote_cell = new_atom("quote"); set(quote_cell, c = new_cell(CELL_SFUNC));
BindQuote(a, p) ==
  IF ~Running(a.s) THEN a.s
  ELSE BindCell(new_cell([a.s EXCEPT ![p.global] = a.v], p.type), a.v, p.f)

\* set(new_atom(name), c = new_cell(type)); cell_func_assign(c, f);
\* C leaves the order in which the two arguments of set are evaluated open
BindAtomFirst(a, p) ==
  IF ~Running(a.s) THEN a.s ELSE BindCell(new_cell(a.s, p.type), a.v, p.f)
BindCellFirst(c, p) ==
  IF ~Running(c.s) THEN c.s ELSE BindAtom(new_atom(c.s, p.name), c.v, p.f)

BindPrimitive(s, p, order) ==
  CASE p.type = "ATOM" -> BindSelf(new_atom(s, p.name), p)
    [] p.type # "ATOM" /\ p.global # "" -> BindQuote(new_atom(s, p.name), p)
    [] p.type # "ATOM" /\ p.global = "" /\ order = "lr" ->
         BindAtomFirst(new_atom(s, p.name), p)
    [] OTHER -> BindCellFirst(new_cell(s, p.type), p)

RECURSIVE BindAll(_, _, _)
BindAll(s, i, order) ==
  IF ~Running(s) \/ i > Len(Primitives) THEN s
  ELSE BindAll(BindPrimitive(s, Primitives[i], order), i + 1, order)

initialize(s, order) ==
  scan_flush(BindAll([s EXCEPT !.binding_list = NULL], 1, order))

\* the end of a pass through main's loop: e is expr = eval_lisp(expr)
MainPrint(e, expr) ==
  IF ~Running(e.s) THEN e.s
  ELSE
  Printf(print_lisp(Emit(e.s, [k |-> "result", expr |-> expr, v |-> e.v]),
                    e.v),
         "\n")

\* the tokens that the scanner has handed out between the states s and t
Scanned(s, t) ==
  IF s.scan_ptr # << >>
  THEN SubSeq(s.scan_ptr, 1, Len(s.scan_ptr) - Len(t.scan_ptr))
  ELSE IF s.stdin = << >> THEN << >>
  ELSE SubSeq(Head(s.stdin), 1, Len(Head(s.stdin)) - Len(t.scan_ptr))

\* r is expr = read_lisp(), s the state at the top of the loop
MainEval(r, s) ==
  IF ~Running(r.s) THEN r.s
  ELSE IF r.v # NULL
  THEN MainPrint(eval_lisp(Emit(r.s, [k |-> "read", expr |-> r.v,
                                      tokens |-> Scanned(s, r.s),
                                      rest |-> r.s.scan_ptr,
                                      cells |-> Reach(r.s, {}, {r.v})]),
                           r.v),
                 r.v)
  ELSE [Printf(r.s, "\n") EXCEPT !.status = "exit0"]

\* the body of main's while(1)
main_loop(s) == MainEval(read_lisp(s), s)

----------------------------------------------------------------------------
(* The input lines offered on stdin. *)

\* (quote a)
LineQuoteA ==
  << "(", "quote", "a", ")" >>

\* ((lambda (x) x) (quote a))
LineIdApply ==
  << "(", "(", "lambda", "(", "x", ")", "x", ")", "(", "quote", "a", ")",
     ")" >>

\* (if (quote t) (quote yes) (quote no))
LineIfT ==
  << "(", "if", "(", "quote", "t", ")", "(", "quote", "yes", ")", "(",
     "quote", "no", ")", ")" >>

\* (if nil (quote yes) (quote no))
LineIfNil ==
  << "(", "if", "nil", "(", "quote", "yes", ")", "(", "quote", "no", ")",
     ")" >>

\* z
LineUnbound ==
  << "z" >>

\* (equal z z)
LineEqualZ ==
  << "(", "equal", "z", "z", ")" >>

\* (equal (quote a) (quote a))
LineEqualA ==
  << "(", "equal", "(", "quote", "a", ")", "(", "quote", "a", ")", ")" >>

\* (if z (quote yes) (quote no))
LineIfZ ==
  << "(", "if", "z", "(", "quote", "yes", ")", "(", "quote", "no", ")",
     ")" >>

\* ((lambda (x y) y) (quote a) z)
LineArgErr ==
  << "(", "(", "lambda", "(", "x", "y", ")", "y", ")", "(", "quote", "a",
     ")", "z", ")" >>

\* (car)
LineCarEmpty ==
  << "(", "car", ")" >>

\* ((quote a) (quote b))
LineNotCallable ==
  << "(", "(", "quote", "a", ")", "(", "quote", "b", ")", ")" >>

\* (if (quote t))
LineIfShort ==
  << "(", "if", "(", "quote", "t", ")", ")" >>

\* (set 'y 'a) (set 'f (lambda () y)) ((lambda (y) (f)) 'b)
LineDyn ==
  << "(", "set", "'", "y", "'", "a", ")", "(", "set", "'", "f", "(",
     "lambda", "(", ")", "y", ")", ")", "(", "(", "lambda", "(", "y", ")",
     "(", "f", ")", ")", "'", "b", ")" >>

Lines ==
  { LineQuoteA,
    LineIdApply,
    LineIfT,
    LineIfNil,
    LineUnbound,
    LineEqualZ,
    LineEqualA,
    LineIfZ,
    LineArgErr,
    LineCarEmpty,
    LineNotCallable,
    LineIfShort,
    LineDyn }

----------------------------------------------------------------------------
(* The state machine. *)

\* the process before main runs
Blank(hs, junk, istty) ==
  [heap |-> << >>, heap_size |-> hs, init |-> FALSE, free_list |-> NULL,
   binding_list |-> NULL, protect_table |-> << >>, protect_used |-> 0,
   nil_cell |-> NULL, quote_cell |-> NULL, error_cell |-> NULL,
   true_cell |-> NULL, scan_ptr |-> << >>, stdin_eof |-> FALSE,
   status |-> "run", tty |-> istty, trace |-> << >>,
   junk |-> junk, depth |-> 0, stdin |-> << >>]

\* the globals as a record, at the top of main's loop
St ==
  [heap |-> heap, heap_size |-> heap_size, init |-> init,
   free_list |-> free_list, binding_list |-> binding_list,
   protect_table |-> protect_table, protect_used |-> protect_used,
   nil_cell |-> nil_cell, quote_cell |-> quote_cell,
   error_cell |-> error_cell, true_cell |-> true_cell,
   scan_ptr |-> scan_ptr, stdin_eof |-> stdin_eof, status |-> status,
   tty |-> tty, trace |-> << >>, junk |-> 0, depth |-> 0, stdin |-> << >>]

Store(s) ==
  /\ heap' = s.heap
  /\ heap_size' = s.heap_size
  /\ init' = s.init
  /\ free_list' = s.free_list
  /\ binding_list' = s.binding_list
  /\ protect_table' = s.protect_table
  /\ protect_used' = s.protect_used
  /\ nil_cell' = s.nil_cell
  /\ quote_cell' = s.quote_cell
  /\ error_cell' = s.error_cell
  /\ true_cell' = s.true_cell
  /\ scan_ptr' = s.scan_ptr
  /\ stdin_eof' = s.stdin_eof
  /\ status' = s.status
  /\ tty' = s.tty
  /\ trace' = s.trace

Boot(hs, junk, istty, order) == initialize(Blank(hs, junk, istty), order)

\* the globals when main enters its loop
Load(s) ==
    /\ heap = s.heap
    /\ heap_size = s.heap_size
    /\ init = s.init
    /\ free_list = s.free_list
    /\ binding_list = s.binding_list
    /\ protect_table = s.protect_table
    /\ protect_used = s.protect_used
    /\ nil_cell = s.nil_cell
    /\ quote_cell = s.quote_cell
    /\ error_cell = s.error_cell
    /\ true_cell = s.true_cell
    /\ scan_ptr = s.scan_ptr
    /\ stdin_eof = s.stdin_eof
    /\ status = s.status
    /\ tty = s.tty
    /\ trace = << >>
    /\ nread = 0

Init ==
  \E hs \in {HeapSmall, HeapLarge}, junk \in {0, 1}, istty \in BOOLEAN,
     order \in {"lr", "rl"} :
    Load(Boot(hs, junk, istty, order))

\* a pass through main's loop that reads a new line from stdin
MainLoopLine ==
  /\ status = "run" /\ scan_ptr = << >> /\ ~stdin_eof
  /\ nread < MaxInputs
  /\ \E line \in Lines : Store(main_loop([St EXCEPT !.stdin = << line >>]))
  /\ nread' = nread + 1

\* a pass that finds its expression on the line read before
MainLoopBuffered ==
  /\ status = "run" /\ scan_ptr # << >>
  /\ Store(main_loop(St))
  /\ nread' = nread

\* a pass that finds stdin at end of file
MainLoopEOF ==
  /\ status = "run" /\ scan_ptr = << >>
  /\ Store(main_loop(St))
  /\ nread' = nread

Next == MainLoopLine \/ MainLoopBuffered \/ MainLoopEOF

Spec == Init /\ [][Next]_vars

----------------------------------------------------------------------------
(* What the records of trace say, for the properties below. *)

Range(f) == {f[x] : x \in DOMAIN f}

Events == 1..Len(trace)

\* the cells a heap h holds
CellsOf(h) == DOMAIN h

\* the cells that the cells of frontier refer to: the car and the cdr of a
\* LIST or LAMBDA cell
RefsOf(h, frontier) ==
  UNION {{h[f].car, h[f].cdr} :
           f \in {g \in frontier : h[g].type \in {"LAMBDA", "LIST"}}}
    \cap CellsOf(h)

\* the cells of h reachable from the cells of frontier
RECURSIVE LiveFrom(_, _, _)
LiveFrom(h, seen, frontier) ==
  IF frontier \subseteq seen THEN seen
  ELSE LiveFrom(h, seen \cup frontier, RefsOf(h, frontier \ seen))

\* the roots of a collection e: the binding list and the protect stack
RootsOf(e) ==
  ({e.binding_list} \cup {e.protect_table[i] : i \in 1..e.protect_used})
    \cap CellsOf(e.heap_before)

\* for each cell of h the cell its car slot links to
NextFree(h) ==
  << >> \o [c \in 1..Cardinality(CellsOf(h)) |->
             IF h[c].car \in CellsOf(h) THEN h[c].car ELSE NULL]

\* the cells on the free list that starts at free
FreeCells(h, free) ==
  IF free \notin CellsOf(h) THEN {}
  ELSE Range(Walk(<< free >>, NextFree(h), Cardinality(CellsOf(h))))
         \ {NULL}

\* the collection e has left the cell c as it was, and off the free list
Kept(e, c) ==
  /\ e.heap_after[c].type = e.heap_before[c].type
  /\ e.heap_after[c].car = e.heap_before[c].car
  /\ e.heap_after[c].name = e.heap_before[c].name
  /\ e.heap_after[c].func = e.heap_before[c].func
  /\ e.heap_after[c].cdr = e.heap_before[c].cdr
  /\ c \notin FreeCells(e.heap_after, e.free_after)

\* C1: GC safety.  Every cell reachable from the binding list or from an
\* entry of the protect stack when a collection starts has the same type
\* and the same car and cdr slots after the collection, and is not on the
\* free list.
GCSafety ==
  \A i \in Events :
    trace[i].k = "gc" =>
      \A c \in LiveFrom(trace[i].heap_before, {}, RootsOf(trace[i])) :
        Kept(trace[i], c)

\* a collection that has found cells to free while the protect stack held
\* cells that the binding list does not reach
GCSafetyWitness ==
  \E i \in Events :
    /\ trace[i].k = "gc"
    /\ trace[i].count > 0
    /\ LiveFrom(trace[i].heap_before, {}, RootsOf(trace[i]))
         # LiveFrom(trace[i].heap_before, {},
                    {trace[i].binding_list} \cap CellsOf(trace[i].heap_before))

----------------------------------------------------------------------------
(* Calls and their returns in trace. *)

\* the n-th element of a set of numbers, in increasing order
Nth(S, n) == CHOOSE x \in S : Cardinality({y \in S : y < x}) = n - 1

\* the events of kind k at depth d strictly between the events i and j
Between(i, j, k, d) ==
  {n \in Events : i < n /\ n < j /\ trace[n].k = k /\ trace[n].d = d}

\* the return of the call of eval_lisp at depth d that is running at event
\* i, 0 when the pass has ended inside it
OutAfter(i, d) ==
  IF \E j \in Events : j > i /\ trace[j].k = "eval_out" /\ trace[j].d = d
  THEN Min({j \in Events : j > i /\ trace[j].k = "eval_out" /\ trace[j].d = d})
  ELSE 0

\* the entry of the call of eval_lambda that returns at event j
LambdaIn(j) ==
  Max({i \in Events : i < j /\ trace[i].k = "lambda_in"
                             /\ trace[i].d = trace[j].d})

\* the cells that make up a binding list: its list cells, pairs and atoms
Shape(env) ==
  [n \in 1..Len(env) |-> << env[n].node, env[n].pair, env[n].atom >>]

\* the evaluations of arguments of the call entered at i, up to event j,
\* that have given the error cell
FailedArgs(i, j) ==
  {m \in Between(i, j, "arg_value", trace[i].d) : trace[m].v = error_cell}

\* C2: binding push/pop balance.  When a call of eval_lambda returns, with
\* the value of the body or with the error cell of an argument, the binding
\* list is the list it was when the call started; and when an argument has
\* given the error cell nothing is evaluated after it in the call: not the
\* body and no further argument.
BindingBalance ==
  \A j \in Events :
    trace[j].k = "lambda_out" =>
      /\ trace[j].binding_list = trace[LambdaIn(j)].binding_list
      /\ Shape(trace[j].env) = Shape(trace[LambdaIn(j)].env)
      /\ \A m \in FailedArgs(LambdaIn(j), j) :
           Between(m, j, "eval_in", trace[j].d + 1) = {}

\* a call that returns after its second argument has given the error cell
BindingBalanceWitness ==
  \E j \in Events :
    /\ trace[j].k = "lambda_out"
    /\ trace[j].v = error_cell
    /\ trace[j].env # << >>
    /\ \E m \in FailedArgs(LambdaIn(j), j) :
         \E n \in Between(LambdaIn(j), m, "arg_value", trace[j].d) :
           trace[n].v # error_cell

\* the values that the evaluations of the pass have returned
Returned == {trace[i].v : i \in {n \in Events : trace[n].k = "eval_out"}}

\* the value handed to the read-eval-print loop, if the pass has got there
Results == {trace[i].v : i \in {n \in Events : trace[n].k = "result"}}

\* the value of the call of a value function at event i
CallValue(i) == trace[OutAfter(i, trace[i].d)].v

\* C3: ERROR propagation.  A value function that receives the error cell as
\* an argument returns the error cell, `if` returns it when its condition
\* has evaluated to it, a lambda application returns it when an argument
\* has, and once any evaluation of the pass has returned the error cell the
\* top-level evaluation returns it to the read-eval-print loop.
ErrorPropagation ==
  /\ \A i \in Events :
       (/\ trace[i].k = "vfunc"
        /\ (trace[i].a = error_cell \/ trace[i].b = error_cell)
        /\ OutAfter(i, trace[i].d) # 0)
         => CallValue(i) = error_cell
  /\ \A i \in Events :
       (/\ trace[i].k = "if"
        /\ OutAfter(i, trace[i].d + 1) # 0
        /\ trace[OutAfter(i, trace[i].d + 1)].v = error_cell
        /\ OutAfter(i, trace[i].d) # 0)
         => CallValue(i) = error_cell
  /\ \A j \in Events :
       (trace[j].k = "lambda_out" /\ FailedArgs(LambdaIn(j), j) # {})
         => trace[j].v = error_cell
  /\ error_cell \in Returned => Results \subseteq {error_cell}

\* the atoms reachable from the binding list
ReachableAtoms ==
  {c \in LiveFrom(heap, {}, {binding_list} \cap CellsOf(heap)) :
     heap[c].type = "ATOM"}

\* the cell c is an atom of the given name that the binding list reaches
Interned(c, name) == c \in ReachableAtoms /\ heap[c].name = name

\* the returns of new_atom after the event i
Returns(i) == {j \in Events : j > i /\ trace[j].k = "new_atom"}

\* C4: atom identity.  No two distinct ATOM cells with equal names are
\* reachable from the binding list; the cell that new_atom has returned for
\* a name is the reachable atom of that name, whether it was interned before
\* or not; and equal applied to an interned atom and itself returns the
\* true atom.
AtomIdentity ==
  /\ \A c1, c2 \in ReachableAtoms : heap[c1].name = heap[c2].name => c1 = c2
  /\ \A i \in Events :
       trace[i].k = "intern" =>
         \/ /\ i < Len(trace)
            /\ Returns(i) # {}
            /\ trace[Min(Returns(i))].name = trace[i].name
            /\ Interned(trace[Min(Returns(i))].cell, trace[i].name)
         \/ Returns(i) = {} /\ status = "exit1"
  /\ \A i \in Events :
       (/\ trace[i].k = "vfunc" /\ trace[i].f = "equal"
        /\ trace[i].a = trace[i].b
        /\ trace[i].a \in ReachableAtoms
        /\ OutAfter(i, trace[i].d) # 0)
         => CallValue(i) = true_cell

\* equal has been applied to the atom a and itself, read in twice
AtomIdentityWitness ==
  \E i \in Events :
    /\ trace[i].k = "vfunc" /\ trace[i].f = "equal"
    /\ trace[i].a = trace[i].b
    /\ Interned(trace[i].a, "a")
    /\ Cardinality({n \in Events : trace[n].k = "new_atom"
                                     /\ trace[n].name = "a"}) = 2
    /\ Results = {true_cell}

\* the collections of the pass that have freed no cell
FailedCollections == {i \in Events : trace[i].k = "gc" /\ trace[i].count = 0}

\* C5: heap exhaustion is fatal.  When a collection started by new_cell
\* on an empty free list frees no cell, the process ends with exit status 1
\* and a diagnostic on stderr right there: new_cell hands out no cell after
\* it and nothing is evaluated or returned after it.  The process ends with
\* that status in no other way.
HeapExhaustionFatal ==
  /\ \A i \in FailedCollections :
       /\ trace[i].free_before = NULL
       /\ status = "exit1"
       /\ Len(trace) = i + 1
       /\ trace[i + 1] = [k |-> "stderr",
                          text |-> "Garbage collection failed!"]
  /\ status = "exit1" => FailedCollections # {}

\* a collection with every cell of the heap reachable
HeapExhaustionWitness ==
  \E i \in FailedCollections :
    /\ status = "exit1"
    /\ LiveFrom(trace[i].heap_before, {}, RootsOf(trace[i]))
         = CellsOf(trace[i].heap_before)

\* C6: exit paths.  The process ends only with exit status 0 at the end of
\* the input or with the exit of a failed collection, never through a null
\* or wild reference or in a loop without end.
ExitPaths ==
  /\ status \in {"run", "exit0", "exit1"}
  /\ status = "exit0" => stdin_eof
  /\ status = "exit1" => FailedCollections # {}

\* the evaluations of arguments of the call entered at i, before event m
ArgsOf(i, m) == Between(i, m, "arg_value", trace[i].d)

\* the first binding of the atom on a binding list: 0 when it has none
FirstOf(env, atom) ==
  IF \E n \in 1..Len(env) : env[n].atom = atom
  THEN Min({n \in 1..Len(env) : env[n].atom = atom})
  ELSE 0

\* what eval_atom must give for the atom on the binding list env
Resolved(env, atom) ==
  IF FirstOf(env, atom) = 0 \/ env[FirstOf(env, atom)].value = NULL
  THEN error_cell
  ELSE env[FirstOf(env, atom)].value

\* the pass has read the expression spelled by tokens
Reads(tokens) ==
  \E i \in Events : trace[i].k = "read" /\ trace[i].tokens = tokens

\* the pass has handed an atom of the given name to the loop as its result
Yields(name) ==
  /\ Results # {}
  /\ \A v \in Results :
       v \in CellsOf(heap) /\ heap[v].type = "ATOM" /\ heap[v].name = name

\* C7: lambda application with dynamic scope.  When the body of a lambda
\* is about to be evaluated, the front of the binding list holds one
\* binding for each formal, in order, with the value of the argument in
\* that place, before the bindings the caller had; the application returns
\* the value of the body; every atom evaluated, in the body as anywhere,
\* gives the value of its first binding on the binding list of that
\* moment; and ((lambda (x) x) (quote a)) gives the atom a.
LambdaApplication ==
  /\ \A m \in Events :
       (trace[m].k = "lambda_bound" /\ trace[m].body) =>
         /\ trace[m].count = Len(trace[LambdaIn(m)].names)
         /\ trace[m].count = Cardinality(ArgsOf(LambdaIn(m), m))
         /\ Len(trace[m].env) = trace[m].count + Len(trace[LambdaIn(m)].env)
         /\ \A n \in 1..trace[m].count :
              /\ trace[m].env[n].atom = trace[LambdaIn(m)].names[n]
              /\ trace[m].env[n].value
                   = trace[Nth(ArgsOf(LambdaIn(m), m), n)].v
         /\ \A n \in 1..Len(trace[LambdaIn(m)].env) :
              Shape(trace[m].env)[trace[m].count + n]
                = Shape(trace[LambdaIn(m)].env)[n]
  /\ \A j \in Events :
       (trace[j].k = "lambda_out" /\ trace[j].body) =>
         /\ trace[j - 1].k = "eval_out"
         /\ trace[j - 1].d = trace[j].d + 1
         /\ trace[j - 1].expr = trace[LambdaIn(j)].body_expr
         /\ trace[j].v = trace[j - 1].v
  /\ \A i \in Events :
       (trace[i].k = "lookup" /\ OutAfter(i, trace[i].d) # 0) =>
         CallValue(i) = Resolved(trace[i].env, trace[i].expr)
  /\ (Reads(LineIdApply) /\ status \in {"run", "exit0"}) => Yields("a")

\* the third expression of LineDyn: ((lambda (y) (f)) 'b)
DynCall == SubSeq(LineDyn, 19, 31)

\* the body of f, the atom y, has been evaluated while the binding list
\* held the binding of y to b pushed by the caller in front of the binding
\* of y to a that was there when f was made, and the call has given b
LambdaApplicationWitness ==
  /\ Reads(DynCall)
  /\ Yields("b")
  /\ \E i \in Events :
       /\ trace[i].k = "lookup"
       /\ trace[i].d >= 3
       /\ Cardinality({n \in 1..Len(trace[i].env) :
                         trace[i].env[n].atom = trace[i].expr}) = 2
       /\ CallValue(i) \in Results

\* the evaluations that the if at event i has started, in order
IfEvals(i) == Between(i, OutAfter(i, trace[i].d), "eval_in", trace[i].d + 1)

\* the value of the evaluation entered at event n
ValueOf(n) == trace[OutAfter(n, trace[n].d)].v

NotCallable ==
  {i \in Events :
     /\ trace[i].k = "eval_in" /\ trace[i].type = "LIST"
     /\ i < Len(trace)
     /\ trace[i + 1].k = "eval_in"
     /\ OutAfter(i + 1, trace[i].d + 1) # 0
     /\ ValueOf(i + 1) # error_cell
     /\ trace[OutAfter(i + 1, trace[i].d + 1)].type \in {"ATOM", "LIST"}}

\* C9: calling a value that is not callable is an evaluation error.  The
\* evaluation of a list whose head evaluates to an atom or to a list
\* prints a diagnostic and returns the error cell.
NotCallableIsError ==
  \A i \in NotCallable :
    OutAfter(i, trace[i].d) # 0 =>
      /\ ValueOf(i) = error_cell
      /\ \E n \in Events :
           /\ OutAfter(i + 1, trace[i].d + 1) < n
           /\ n < OutAfter(i, trace[i].d)
           /\ trace[n].k = "printf"

\* the calls of if with a number of clauses other than three
IfMalformed ==
  {i \in Events :
     /\ trace[i].k = "sfunc" /\ trace[i].f = "lisp_if"
     /\ Len(trace[i].args) # 3}

\* C10: a wrong number of if clauses is an evaluation error.  An if that
\* has not exactly three clauses returns the error cell and evaluates no
\* branch: nothing after its condition.
IfArityIsError ==
  \A i \in IfMalformed :
    OutAfter(i, trace[i].d) # 0 =>
      /\ CallValue(i) = error_cell
      /\ Cardinality(Between(i, OutAfter(i, trace[i].d), "eval_in",
                             trace[i].d + 1)) <= 1

----------------------------------------------------------------------------
(* Applications of value functions. *)

\* the applications of value functions of the pass: the lists whose head
\* has evaluated to a VFUNC cell
VFuncCalls == {i \in Events : trace[i].k = "vfunc_in"}

\* the last event of the application entered at event i: its return, or the
\* end of trace when the pass has ended inside it
EndOf(i) ==
  IF OutAfter(i, trace[i].d) # 0 THEN OutAfter(i, trace[i].d)
  ELSE Len(trace) + 1

\* the evaluations of arguments that the application at event i has made
ArgEvals(i) == Between(i, EndOf(i), "eval_in", trace[i].d + 1)

\* the number of argument expressions that the application evaluates
Present(i) == IF Len(trace[i].args) < 2 THEN Len(trace[i].args) ELSE 2

\* the call of the primitive in the application at event i
CallsOf(i) ==
  {c \in Events : i < c /\ c < EndOf(i) /\ trace[c].k = "vfunc"
                    /\ trace[c].d = trace[i].d}

\* C11: value-function application supports 0, 1 and 2 arguments.  A list
\* whose head has evaluated to a value function, with any number of argument
\* expressions, returns; it evaluates the first two argument expressions
\* that are present once each and in order, and no later one (a place with
\* no expression is read as nil); it then calls the primitive once with the
\* values of these evaluations and returns what the primitive returns.
VFuncArity ==
  \A i \in VFuncCalls :
    /\ status # "exit1" => OutAfter(i, trace[i].d) # 0
    /\ OutAfter(i, trace[i].d) # 0 =>
         /\ Cardinality(ArgEvals(i)) = 2
         /\ \A n \in 1..2 :
              trace[Nth(ArgEvals(i), n)].expr
                = IF n <= Present(i) THEN trace[i].args[n] ELSE nil_cell
         /\ Cardinality(CallsOf(i)) = 1
         /\ \A c \in CallsOf(i) :
              /\ c > Nth(ArgEvals(i), 2)
              /\ trace[c].func = trace[i].func
              /\ trace[c].a = ValueOf(Nth(ArgEvals(i), 1))
              /\ trace[c].b = ValueOf(Nth(ArgEvals(i), 2))

----------------------------------------------------------------------------
(* The value functions cons, car and cdr applied directly to cells of the  *)
(* heap, for the laws that hold of them whatever expression calls them.    *)

\* (set 'f (lambda () nil)) (set 'p '(a (b)))
LineSetup ==
  << "(", "set", "'", "f", "(", "lambda", "(", ")", "nil", ")", ")", "(",
     "set", "'", "p", "'", "(", "a", "(", "b", ")", ")", ")" >>

\* (cons (quote a) (quote b))
LineConsAtom ==
  << "(", "cons", "(", "quote", "a", ")", "(", "quote", "b", ")", ")" >>

PrimLines == {LineSetup, LineConsAtom}

\* the cells that the binding list reaches: the cells a program can hand to
\* a value function
Operands(s) == {c \in Reach(s, {}, {s.binding_list}) : IsCell(s, c)}

\* the state after new_cell has handed out every cell of the free list,
\* the cells of free, to callers that have dropped them
ExhaustOf(s, free) ==
  [s EXCEPT !.free_list = NULL,
            !.heap = << >> \o [c \in 1..s.heap_size |->
                        IF c \in free
                        THEN [type |-> "LIST", mark |-> 0, car |-> NULL,
                              cdr |-> NULL, name |-> "", func |-> ""]
                        ELSE s.heap[c]]]

Exhaust(s) == ExhaustOf(s, FreeCells(s.heap, s.free_list))

\* the call f(a, b) about to be made in the state s
PrimIn(s, f, a, b) ==
  Emit(s, [k |-> "prim", f |-> f, a |-> a, b |-> b,
           type_a |-> TypeOf(s, a), type_b |-> TypeOf(s, b),
           cdr_a |-> cell_cdr(s, a),
           heap |-> s.heap, free_list |-> s.free_list,
           binding_list |-> s.binding_list,
           protect_table |-> s.protect_table,
           protect_used |-> s.protect_used])

\* r is what the call has returned
PrimOut(r) ==
  IF ~Running(r.s) THEN r.s ELSE Emit(r.s, [k |-> "prim_out", v |-> r.v])

\* c is cons(a, b); car and cdr are then applied to what it has returned
ConsOut(c) ==
  IF ~Running(c.s) THEN c.s
  ELSE Emit(c.s, [k |-> "prim_out", v |-> c.v,
                  car |-> car(c.s, c.v, NULL).v,
                  cdr |-> cdr(c.s, c.v, NULL).v])

\* a pass that reads a line of PrimLines
PrimRead ==
  /\ status = "run" /\ scan_ptr = << >> /\ ~stdin_eof
  /\ nread = 0
  /\ \E line \in PrimLines :
       Store(main_loop([St EXCEPT !.stdin = << line >>]))
  /\ nread' = nread + 1

\* cons(a, b), then car and cdr of the result, with the free list as it is
\* or used up
PrimCons ==
  /\ status = "run" /\ scan_ptr = << >>
  /\ nread < MaxInputs
  /\ \E a \in Operands(St), b \in Operands(St), full \in BOOLEAN :
       Store(ConsOut(cons(PrimIn(IF full THEN Exhaust(St) ELSE St,
                                 "cons", a, b),
                          a, b)))
  /\ nread' = MaxInputs

\* car(a, NULL)
PrimCar ==
  /\ status = "run" /\ scan_ptr = << >>
  /\ nread < MaxInputs
  /\ \E a \in Operands(St) :
       Store(PrimOut(car(PrimIn(St, "car", a, NULL), a, NULL)))
  /\ nread' = MaxInputs

\* cdr(a, NULL)
PrimCdr ==
  /\ status = "run" /\ scan_ptr = << >>
  /\ nread < MaxInputs
  /\ \E a \in Operands(St) :
       Store(PrimOut(cdr(PrimIn(St, "cdr", a, NULL), a, NULL)))
  /\ nread' = MaxInputs

PrimNext == PrimRead \/ MainLoopBuffered \/ PrimCons \/ PrimCar \/ PrimCdr

\* main has entered its loop with stdin a terminal
PrimInit ==
  \E hs \in {HeapSmall, HeapLarge}, junk \in {0, 1} :
    Load(Boot(hs, junk, TRUE, "lr"))

PrimSpec == PrimInit /\ [][PrimNext]_vars

\* the calls made directly, and what a call has returned
PrimCalls(f) == {i \in Events : trace[i].k = "prim" /\ trace[i].f = f}
PrimValue(i) == trace[Len(trace)]

\* C12: list construction laws.  For every cell A that is not the error
\* cell and every B that is a LIST cell or nil, cons(A, B) returns a cell
\* whose car is A itself and whose cdr is B: car of it returns A, and cdr
\* of it returns B, which for B nil is nil.
ConsLaws ==
  \A i \in PrimCalls("cons") :
    (/\ trace[i].a # error_cell
     /\ (trace[i].type_b = "LIST" \/ trace[i].b = nil_cell)
     /\ status = "run") =>
      /\ PrimValue(i).k = "prim_out"
      /\ PrimValue(i).v \in CellsOf(heap)
      /\ PrimValue(i).v # error_cell
      /\ PrimValue(i).car = trace[i].a
      /\ PrimValue(i).cdr = trace[i].b

\* cons has allocated its cell in a collection it has started itself, on a
\* first argument that is a list and a second one that is nil
ConsLawsWitness ==
  \E i \in PrimCalls("cons") :
    /\ status = "run"
    /\ trace[i].type_a = "LIST" /\ trace[i].b = nil_cell
    /\ \E g \in Events : g > i /\ trace[g].k = "gc" /\ trace[g].count > 0
    /\ PrimValue(i).k = "prim_out"
    /\ PrimValue(i).car = trace[i].a
    /\ PrimValue(i).cdr = nil_cell

\* the events after event i in which the heap is touched: an allocation or
\* a collection
Allocations(i) ==
  {n \in Events : n > i /\ trace[n].k \in {"new_cell", "gc"}}

\* C13: cons type check.  cons(a, b) with b a cell that is neither a LIST
\* cell nor nil returns the error cell before it allocates: no cell is
\* handed out, nothing is collected, and the heap, the free list, the
\* binding list and the protect stack are as they were.  In particular
\* (cons (quote a) (quote b)) gives the error cell.
ConsTypeCheck ==
  /\ \A i \in PrimCalls("cons") :
       (trace[i].type_b # "LIST" /\ trace[i].b # nil_cell) =>
         /\ status = "run"
         /\ PrimValue(i).k = "prim_out"
         /\ PrimValue(i).v = error_cell
         /\ Allocations(i) = {}
         /\ heap = trace[i].heap
         /\ free_list = trace[i].free_list
         /\ binding_list = trace[i].binding_list
         /\ protect_table = trace[i].protect_table
         /\ protect_used = trace[i].protect_used
  /\ (Reads(LineConsAtom) /\ status = "run") => Results = {error_cell}

\* cons has been given a lambda as its second argument while the free list
\* was empty, and has returned the error cell
ConsTypeCheckWitness ==
  \E i \in PrimCalls("cons") :
    /\ trace[i].type_b = "LAMBDA"
    /\ trace[i].a # error_cell
    /\ trace[i].free_list = NULL
    /\ PrimValue(i).k = "prim_out"
    /\ PrimValue(i).v = error_cell

\* the diagnostics printed after event i
Diagnostics(i) ==
  {n \in Events : /\ n > i /\ trace[n].k = "printf"
                  /\ trace[n].text \in
                       {"Error: car: argument is not a list.",
                        "Error: cdr: argument is not a list.",
                        "Error: cons: second argument is not a list.",
                        "Error: set: first argument is not an atom.",
                        "Error: bad argument list supplied.",
                        "Error: unbound atom"}}

\* the direct calls of car and of cdr
CarCdrCalls == PrimCalls("car") \cup PrimCalls("cdr")

\* C14: car and cdr of nil return nil, with no diagnostic; of any other
\* cell that is not a LIST cell (an atom other than nil, a lambda, a
\* built-in function cell; the error cell is the ERROR value and is not
\* such a cell) they print one diagnostic, their own, and return the error
\* cell; car of a LIST cell returns its first element, and cdr of a list of
\* one element returns nil.
CarCdrOfNonLists ==
  \A i \in CarCdrCalls :
    /\ status = "run"
    /\ PrimValue(i).k = "prim_out"
    /\ trace[i].a = nil_cell =>
         PrimValue(i).v = nil_cell /\ Diagnostics(i) = {}
    /\ (/\ trace[i].a # nil_cell /\ trace[i].a # error_cell
        /\ trace[i].type_a # "LIST") =>
         /\ PrimValue(i).v = error_cell
         /\ Cardinality(Diagnostics(i)) = 1
         /\ \A n \in Diagnostics(i) :
              trace[n].text = IF trace[i].f = "car"
                              THEN "Error: car: argument is not a list."
                              ELSE "Error: cdr: argument is not a list."
    /\ trace[i].type_a = "LIST" =>
         /\ Diagnostics(i) = {}
         /\ trace[i].f = "car" => PrimValue(i).v = heap[trace[i].a].car
         /\ (trace[i].f = "cdr" /\ trace[i].cdr_a = NULL) =>
              PrimValue(i).v = nil_cell
         /\ (trace[i].f = "cdr" /\ trace[i].cdr_a # NULL) =>
              PrimValue(i).v = trace[i].cdr_a

\* cdr of a lambda has printed its diagnostic and returned the error cell
CarCdrOfNonListsWitness ==
  \E i \in PrimCalls("cdr") :
    /\ trace[i].type_a = "LAMBDA"
    /\ PrimValue(i).k = "prim_out"
    /\ PrimValue(i).v = error_cell
    /\ Diagnostics(i) # {}

----------------------------------------------------------------------------
(* The read-eval-print loop on lines of special forms, of errors in        *)
(* arguments and of input that does not parse.                             *)

\* (quote (a (b))) (quote ())
LineQuoteList ==
  << "(", "quote", "(", "a", "(", "b", ")", ")", ")", "(", "quote", "(",
     ")", ")" >>

\* (lambda x x) (lambda (x (y)) x)
LineBadLambda ==
  << "(", "lambda", "x", "x", ")", "(", "lambda", "(", "x", "(", "y", ")",
     ")", "x", ")" >>

\* (car z) (cdr z) (cons z nil) (set (quote a) z) ((lambda (x) x) z)
LineErrArgs ==
  << "(", "car", "z", ")", "(", "cdr", "z", ")", "(", "cons", "z", "nil",
     ")", "(", "set", "(", "quote", "a", ")", "z", ")", "(", "(", "lambda",
     "(", "x", ")", "x", ")", "z", ")" >>

\* ) (quote a)
LineCloseFirst ==
  << ")", "(", "quote", "a", ")" >>

\* (a (b
LineUnclosed ==
  << "(", "a", "(", "b" >>

\* (a ') (quote a)
LineQuoteClose ==
  << "(", "a", "'", ")", "(", "quote", "a", ")" >>

\* (a <error>
LineErrorName ==
  << "(", "a", "<error>" >>

\* (quote <error>)
LineQuoteError ==
  << "(", "quote", "<error>", ")" >>

FormLines ==
  { LineQuoteList,
    LineQuoteError,
    LineBadLambda,
    LineErrArgs,
    LineCloseFirst,
    LineUnclosed,
    LineQuoteClose,
    LineErrorName,
    LineIdApply,
    LineIfT,
    LineDyn }

\* a pass through main's loop that reads a new line of FormLines
MainLoopForm ==
  /\ status = "run" /\ scan_ptr = << >> /\ ~stdin_eof
  /\ nread < MaxInputs
  /\ \E line \in FormLines :
       Store(main_loop([St EXCEPT !.stdin = << line >>]))
  /\ nread' = nread + 1

FormNext == MainLoopForm \/ MainLoopBuffered \/ MainLoopEOF

FormSpec == Init /\ [][FormNext]_vars

----------------------------------------------------------------------------
(* Special functions. *)

\* the calls of quote with an argument X
Quotes ==
  {i \in Events : /\ trace[i].k = "sfunc" /\ trace[i].f = "quote"
                  /\ Len(trace[i].exprs) >= 1}

\* C15: quote identity.  The evaluation of (quote X) returns the cell X
\* itself at once: nothing is evaluated and no cell is allocated between
\* the call of quote and the return of the evaluation, whether X is an atom
\* with a binding or without one, nil, or a list.
QuoteIdentity ==
  \A i \in Quotes :
    /\ i < Len(trace)
    /\ trace[i + 1].k = "eval_out"
    /\ trace[i + 1].d = trace[i].d
    /\ trace[i + 1].v = trace[i].exprs[1]

\* (quote (a (b))) has given the list it was given, whose second element
\* is a list
QuoteIdentityWitness ==
  \E i \in Quotes :
    /\ Results = {trace[i].exprs[1]}
    /\ heap[trace[i].exprs[1]].type = "LIST"
    /\ heap[trace[i].exprs[1]].cdr \in CellsOf(heap)
    /\ heap[heap[heap[trace[i].exprs[1]].cdr].car].type = "LIST"

\* the definitions of user functions: lambda has filled its cell
LambdaDefs == {i \in Events : trace[i].k = "lambda_def"}

\* the parameter list at event i is nil or a list of ATOM cells only
AtomList(formals, type, elem_types) ==
  \/ formals = nil_cell
  \/ /\ type = "LIST"
     /\ \A n \in 1..Len(elem_types) : elem_types[n] = "ATOM"

\* the diagnostics of the definition at event i
DefDiagnostics(i) ==
  {n \in Diagnostics(i) : n < OutAfter(i, trace[i].d)}

\* C16: lambda validates its parameter list when the function is defined.
\* A call of lambda that is given a parameter list returns.  It returns the LAMBDA cell it has filled, and
\* prints no diagnostic, when the parameter list is nil or a list whose
\* elements are all ATOM cells; for every other parameter list (an atom other
\* than nil, a list with a sub-list in it) it returns the error cell and
\* prints one diagnostic, "Error: bad argument list supplied.".  Every
\* LAMBDA cell that eval_lambda applies has a parameter list that is nil or
\* a list of ATOM cells.
LambdaValidates ==
  /\ \A i \in LambdaDefs :
       /\ OutAfter(i, trace[i].d) # 0
       /\ IF AtomList(trace[i].formals, trace[i].type, trace[i].elem_types)
          THEN /\ ValueOf(i) = trace[i].ufunc
               /\ trace[OutAfter(i, trace[i].d)].type = "LAMBDA"
               /\ DefDiagnostics(i) = {}
          ELSE /\ ValueOf(i) = error_cell
               /\ Cardinality(DefDiagnostics(i)) = 1
               /\ \A n \in DefDiagnostics(i) :
                    trace[n].text = "Error: bad argument list supplied."
  /\ \A i \in Events :
       trace[i].k = "lambda_in" =>
         /\ AtomList(trace[i].formals,
                     IF trace[i].formals \in CellsOf(heap)
                     THEN heap[trace[i].formals].type ELSE "",
                     trace[i].name_types)
         /\ trace[i].formals # nil_cell => trace[i].name_types # << >>

\* a pass has refused a parameter list that has a sub-list in it
LambdaValidatesWitness ==
  \E j \in LambdaDefs :
    /\ trace[j].type = "LIST" /\ ValueOf(j) = error_cell
    /\ "LIST" \in {trace[j].elem_types[n] :
                     n \in 1..Len(trace[j].elem_types)}
    /\ Cardinality(DefDiagnostics(j)) = 1

(* The reporting of errors. *)

\* the atom has no value in the binding list env: no entry, or an entry
\* whose value is NULL
Unbound(env, atom) ==
  \/ \A n \in 1..Len(env) : env[n].atom # atom
  \/ env[Min({n \in 1..Len(env) : env[n].atom = atom})].value = NULL

\* the searches of eval_atom that find no value
FailedLookups ==
  {i \in Events : trace[i].k = "lookup"
                    /\ Unbound(trace[i].env, trace[i].expr)}

\* the calls of value functions that are handed the error cell
ErrorCalls ==
  {i \in Events : /\ trace[i].k = "vfunc"
                  /\ trace[i].f \in {"car", "cdr", "cons", "set"}
                  /\ error_cell \in {trace[i].a, trace[i].b}}

\* the event i is the return of the evaluation at depth d with the error cell
ReturnsError(i, d) ==
  /\ i \in Events
  /\ trace[i].k = "eval_out" /\ trace[i].d = d /\ trace[i].v = error_cell

\* what detects the error that the diagnostic at event n reports: the event
\* before it
Detects(n) ==
  /\ n > 1
  /\ CASE trace[n].text = "Error: unbound atom" ->
            /\ n - 1 \in FailedLookups
            /\ trace[n].atom = trace[n - 1].expr
       [] trace[n].text = "Error: bad argument list supplied." ->
            trace[n - 1].k = "lambda_def"
       [] OTHER ->
            /\ trace[n - 1].k = "vfunc"
            /\ trace[n - 1].a # error_cell /\ trace[n - 1].b # error_cell
            /\ trace[n].text \in
                 { "Error: " \o trace[n - 1].f \o ": argument is not a list.",
                   "Error: " \o trace[n - 1].f
                     \o ": second argument is not a list.",
                   "Error: " \o trace[n - 1].f
                     \o ": first argument is not an atom." }

\* C17: an error is reported once, where it is detected.  An evaluation of
\* an atom that has no value prints one diagnostic, "Error: unbound atom",
\* and returns the error cell.  Every diagnostic of a pass is printed by the
\* routine that detects the error (eval_atom, a value function that was not
\* handed the error cell, lambda), which then returns the error cell at
\* once, so no detection prints twice.  car, cdr, cons and set return the
\* error cell they are handed without a diagnostic; a lambda application
\* prints none between the failure of an argument and its return of the
\* error cell; nothing is printed for an error cell that the loop has
\* received as the result but the newline.
ErrorsReportedOnce ==
  /\ \A i \in FailedLookups :
       /\ i + 1 \in Diagnostics(0)
       /\ trace[i + 1].text = "Error: unbound atom"
       /\ trace[i + 1].atom = trace[i].expr
       /\ ReturnsError(i + 2, trace[i].d)
  /\ \A n \in Diagnostics(0) :
       /\ Detects(n)
       /\ ReturnsError(n + 1, trace[n - 1].d)
  /\ \A i \in ErrorCalls : ReturnsError(i + 1, trace[i].d)
  /\ \A j \in Events :
       (trace[j].k = "lambda_out" /\ FailedArgs(LambdaIn(j), j) # {}) =>
         /\ trace[j].v = error_cell
         /\ \A m \in FailedArgs(LambdaIn(j), j) :
              {n \in Diagnostics(m) : n < j} = {}
  /\ \A r \in Events :
       (trace[r].k = "result" /\ trace[r].v = error_cell) =>
         /\ r + 1 = Len(trace)
         /\ trace[r + 1] = [k |-> "printf", text |-> "\n"]

\* set is handed the error cell that the evaluation of its second argument
\* has reported, and the loop receives it
ErrorsReportedOnceWitness ==
  \E i \in ErrorCalls, l \in FailedLookups, r \in Events :
    /\ trace[i].f = "set" /\ trace[i].b = error_cell
    /\ l < i /\ i < r
    /\ trace[r].k = "result" /\ trace[r].v = error_cell
    /\ Cardinality(Diagnostics(0)) = 1

(* Input that does not parse. *)

\* the expressions that a pass has read
ReadEvents == {r \in Events : trace[r].k = "read"}

\* the diagnostics of the parser before the event r
ParseErrors(r) ==
  {n \in Events : /\ n < r /\ trace[n].k = "printf"
                  /\ trace[n].text \in {"parse error: unexpected ')'\n",
                                        "parse error: unexpected EOF.\n"}}

\* how many lists are open after the first n of the tokens
Nesting(tokens, n) ==
  Cardinality({m \in 1..n : tokens[m] = "("})
    - Cardinality({m \in 1..n : tokens[m] = ")"})

\* the tokens end inside a list that they do not close
EndsInList(tokens) ==
  /\ tokens # << >>
  /\ \A n \in 1..Len(tokens) : tokens[n] # "'" /\ Nesting(tokens, n) > 0

\* the parser has printed one diagnostic before the event r, with the text
ReportsOnce(r, text) ==
  /\ Cardinality(ParseErrors(r)) = 1
  /\ \A n \in ParseErrors(r) : trace[n].text = text

\* what holds of the expressions read in a pass
ParsedOrError ==
  \A r \in ReadEvents :
    /\ (trace[r].tokens # << >> /\ trace[r].tokens[1] = ")") =>
         ReportsOnce(r, "parse error: unexpected ')'\n")
    /\ ParseErrors(r) # {} =>
         /\ Cardinality(ParseErrors(r)) = 1
         /\ trace[r].expr = error_cell
         /\ trace[r].rest = << >>
         /\ \A n \in ParseErrors(r) :
              {m \in Events : n < m /\ m < r /\ trace[m].k = "new_cell"} = {}
    /\ trace[r].expr # error_cell => error_cell \notin trace[r].cells

\* a step in which the loop finds the end of the input where the pass
\* before has stopped reading
EndOfInput == status = "run" /\ status' = "exit0"

\* what holds of a pass after which the input has ended
UnclosedAtEnd ==
  \A r \in ReadEvents :
    (EndsInList(trace[r].tokens) /\ trace[r].rest = << >>) =>
      /\ ReportsOnce(r, "parse error: unexpected EOF.\n")
      /\ trace[r].expr = error_cell

\* C18: parse errors.  When the expression starts with ")" the parser prints
\* "parse error: unexpected ')'", and when the input ends inside a list that
\* is not closed it prints "parse error: unexpected EOF."; in both cases it
\* returns the error cell and nothing of the line is left to scan.  Whenever
\* the parser has printed a diagnostic it has printed one only, what it
\* returns is the error cell itself, no cell is allocated between the
\* diagnostic and the return (the error cell is not consed into a list) and
\* the rest of the line is discarded.  The error cell is not among the cells
\* of any other expression that the parser returns.
ParseErrorsPropagate ==
  /\ []ParsedOrError
  /\ [][EndOfInput => UnclosedAtEnd]_vars

(* The protocol of the loop. *)

\* the events of a pass that print, and those of an evaluation
Prints == {n \in Events : trace[n].k = "printf"}
Evaluations == {n \in Events : trace[n].k \in {"eval_in", "eval_out"}}
ResultEvents == {n \in Events : trace[n].k = "result"}

\* the prompt is what a pass prints first, and it prints it once
PromptFirst ==
  trace # << >> =>
    /\ trace[1] = [k |-> "printf", text |-> "> "]
    /\ \A n \in Prints : trace[n].text = "> " => n = 1

\* the echo of the expression read at event r: its newline comes right
\* before r when stdin is no terminal, and a terminal gets no echo
Echoed(r) ==
  IF tty
  THEN \A n \in Prints : n < r => n = 1 \/ n \in ParseErrors(r)
  ELSE /\ r > 2
       /\ trace[r - 1] = [k |-> "printf", text |-> "\n"]

\* the expression read at event r is evaluated after its echo and gets one
\* result line, which ends the pass
OneResultLine(r) ==
  /\ Cardinality(ResultEvents) = 1
  /\ \A j \in ResultEvents :
       /\ j > r
       /\ trace[j].expr = trace[r].expr
       /\ \A n \in Evaluations : r < n /\ n < j
       /\ trace[Len(trace)] = [k |-> "printf", text |-> "\n"]
       /\ \A n \in Events :
            (j < n /\ n < Len(trace)) =>
              trace[n].k = "printf" /\ trace[n].text # "\n"

\* C19: the order of the loop's protocol.  A pass prints the prompt first;
\* when it has read an expression it echoes it, with a newline, if stdin is
\* no terminal, then evaluates it and prints one result line, the value and
\* a newline, also when the value is the error cell, and with that line the
\* pass ends, so that the next prompt comes after it.  Only the fatal
\* failure of a collection ends a pass before its result line.  At the end
\* of the input the pass evaluates nothing, prints a newline after the
\* prompt and exits with status 0.
ReplProtocol ==
  /\ PromptFirst
  /\ Cardinality(ReadEvents) <= 1
  /\ \A r \in ReadEvents :
       /\ Echoed(r)
       /\ status # "exit1" => OneResultLine(r)
       /\ status # "exit0"
  /\ status = "exit0" =>
       trace = << [k |-> "printf", text |-> "> "],
                  [k |-> "printf", text |-> "\n"] >>
  /\ (status = "run" /\ trace # << >>) => ReadEvents # {}

(* Collections inside new_atom. *)

\* the calls of new_atom, and the event at which the call entered at event
\* i ends: its return, or the end of a pass that ends inside it
InternCalls == {i \in Events : trace[i].k = "intern"}
InternEnd(i) == IF Returns(i) # {} THEN Min(Returns(i)) ELSE Len(trace) + 1

\* the allocations and the collections of the call entered at event i
InternAllocs(i) ==
  {n \in Events : i < n /\ n < InternEnd(i) /\ trace[n].k = "new_cell"}
InternCollections(i) ==
  {g \in Events : i < g /\ g < InternEnd(i) /\ trace[g].k = "gc"}

\* C20: interning is safe against collections.  In every call of new_atom,
\* each cell that an earlier allocation of the call has handed out is
\* reachable from the binding list or from the protect stack when a later
\* allocation of the call starts a collection, the collection leaves the
\* cell as it was and off the free list, and no two allocations of the call
\* hand out the same cell.
InternGCSafe ==
  \A i \in InternCalls :
    /\ \A g \in InternCollections(i) :
         \A n \in InternAllocs(i) :
           n < g =>
             /\ trace[n].cell
                  \in LiveFrom(trace[g].heap_before, {}, RootsOf(trace[g]))
             /\ Kept(trace[g], trace[n].cell)
    /\ \A n, m \in InternAllocs(i) :
         trace[n].cell = trace[m].cell => n = m

----------------------------------------------------------------------------
(* The read-eval-print loop on lines that apply functions and set atoms.   *)

\* (quote (a b c d a a a)) (car (set 'car nil) (lambda nil))
LineSetCar ==
  << "(", "quote", "(", "a", "b", "c", "d", "a", "a", "a", ")", ")",
     "(", "car", "(", "set", "'", "car", "nil", ")", "(", "lambda", "nil",
     ")", ")" >>

\* ((lambda (x x) x) 'a 'b)
LineTwice ==
  << "(", "(", "lambda", "(", "x", "x", ")", "x", ")", "'", "a", "'", "b",
     ")" >>

\* ((lambda (x y) y) 'a x)
LineArgFormal ==
  << "(", "(", "lambda", "(", "x", "y", ")", "y", ")", "'", "a", "x", ")" >>

\* ((lambda (x y) y) 'a)
LineFew ==
  << "(", "(", "lambda", "(", "x", "y", ")", "y", ")", "'", "a", ")" >>

\* ((lambda (x) x) 'a z)
LineMany ==
  << "(", "(", "lambda", "(", "x", ")", "x", ")", "'", "a", "z", ")" >>

\* ((lambda () 'a) z)
LineNoFormals ==
  << "(", "(", "lambda", "(", ")", "'", "a", ")", "z", ")" >>

\* (set 'b 'c)
LineSetB ==
  << "(", "set", "'", "b", "'", "c", ")" >>

\* ((lambda (x) (set 'x 'b)) 'a)
LineSetFormal ==
  << "(", "(", "lambda", "(", "x", ")", "(", "set", "'", "x", "'", "b", ")",
     ")", "'", "a", ")" >>

\* (set '(a) 'b)
LineSetList ==
  << "(", "set", "'", "(", "a", ")", "'", "b", ")" >>

ApplyLines ==
  { LineSetCar,
    LineSetB,
    LineSetFormal,
    LineSetList,
    LineTwice,
    LineArgFormal,
    LineFew,
    LineMany,
    LineNoFormals,
    LineDyn }

\* a pass through main's loop that reads a new line of ApplyLines
MainLoopApply ==
  /\ status = "run" /\ scan_ptr = << >> /\ ~stdin_eof
  /\ nread < MaxInputs
  /\ \E line \in ApplyLines :
       Store(main_loop([St EXCEPT !.stdin = << line >>]))
  /\ nread' = nread + 1

ApplyNext == MainLoopApply \/ MainLoopBuffered \/ MainLoopEOF

ApplySpec == Init /\ [][ApplyNext]_vars

(* Collections while a value function waits for its arguments. *)

\* the event at which the application entered at event i calls the
\* primitive, or the end of the application when it does not get there
CallOf(i) == IF CallsOf(i) # {} THEN Min(CallsOf(i)) ELSE EndOf(i)

\* the collections that run between the events i and j
Collections(i, j) == {g \in Events : i < g /\ g < j /\ trace[g].k = "gc"}

\* the collection at event g finds the cell c reachable from its roots and
\* leaves it as it was
Survives(g, c) ==
  /\ c \in LiveFrom(trace[g].heap_before, {}, RootsOf(trace[g]))
  /\ Kept(trace[g], c)

\* the return of the evaluation of the first argument of the application
\* entered at event i, 0 when there is none
FirstArgOut(i) ==
  IF ArgEvals(i) = {} THEN 0
  ELSE OutAfter(Nth(ArgEvals(i), 1), trace[i].d + 1)

\* C21: the application of a value function is safe against collections.
\* From the evaluation of the head to the call of the primitive, every
\* collection finds the function cell reachable from the binding list or the
\* protect stack and leaves it as it was and off the free list; and so it
\* does for the value of the first argument, from the return of its
\* evaluation on.
VFuncGCSafe ==
  \A i \in VFuncCalls :
    /\ \A g \in Collections(i, CallOf(i)) : Survives(g, trace[i].func)
    /\ FirstArgOut(i) # 0 =>
         \A g \in Collections(FirstArgOut(i), CallOf(i)) :
           trace[FirstArgOut(i)].v \in CellsOf(heap) =>
             Survives(g, trace[FirstArgOut(i)].v)

(* The protect stack across evaluations. *)

\* the entry of the evaluation that returns at event j
EntryOf(j) ==
  Max({i \in Events : i < j /\ trace[i].k = "eval_in"
                            /\ trace[i].d = trace[j].d})

\* C22: pairing on the protect stack.  When an evaluation returns, with a
\* value or with the error cell, protect_used is what it was when the
\* evaluation began; protect_used is never negative; and it is 0 whenever
\* the loop is about to print a prompt.
ProtectPairing ==
  /\ \A j \in Events :
       trace[j].k = "eval_out" =>
         trace[j].protect_used = trace[EntryOf(j)].protect_used
  /\ \A j \in Events :
       trace[j].k \in {"eval_in", "eval_out"} => trace[j].protect_used >= 0
  /\ protect_used >= 0
  /\ status = "run" => protect_used = 0

----------------------------------------------------------------------------
(* The read-eval-print loop on a heap that several collections go over.    *)

\* (quote (a a)) (quote (a)) (quote a) (quote c)
LineFourQuotes ==
  << "(", "quote", "(", "a", "a", ")", ")", "(", "quote", "(", "a", ")",
     ")", "(", "quote", "a", ")", "(", "quote", "c", ")" >>

\* (quote (a a)) (quote (a)) (quote a) (quote c) (quote a) (a)
LineSixForms ==
  LineFourQuotes \o << "(", "quote", "a", ")", "(", "a", ")" >>

\* (quote (a a)) (quote a)
LineTwoQuotes ==
  << "(", "quote", "(", "a", "a", ")", ")", "(", "quote", "a", ")" >>

\* (quote (a a)) (quote (a a)) (quote a) (quote a) (quote (a)) (quote (a a))
\* (set 'c (lambda nil))
LineSetNew ==
  << "(", "quote", "(", "a", "a", ")", ")",
     "(", "quote", "(", "a", "a", ")", ")",
     "(", "quote", "a", ")",
     "(", "quote", "a", ")",
     "(", "quote", "(", "a", ")", ")",
     "(", "quote", "(", "a", "a", ")", ")",
     "(", "set", "'", "c", "(", "lambda", "nil", ")", ")" >>

CollectLines ==
  { LineFourQuotes,
    LineSetNew,
    LineSixForms,
    LineTwoQuotes,
    LineQuoteA,
    LineIdApply,
    LineUnbound,
    LineEqualA,
    LineDyn }

\* a pass through main's loop that reads a new line of CollectLines
MainLoopCollect ==
  /\ status = "run" /\ scan_ptr = << >> /\ ~stdin_eof
  /\ nread < MaxInputs
  /\ \E line \in CollectLines :
       Store(main_loop([St EXCEPT !.stdin = << line >>]))
  /\ nread' = nread + 1

\* new_cell(type), called in the state that a pass has left
CollectAlloc ==
  /\ status = "run" /\ scan_ptr = << >>
  /\ nread < MaxInputs
  /\ \E type \in {"ATOM", "LIST"} :
       Store(new_cell(Emit(St, [k |-> "alloc", type |-> type]), type).s)
  /\ nread' = MaxInputs

CollectNext ==
  MainLoopCollect \/ MainLoopBuffered \/ MainLoopEOF \/ CollectAlloc

CollectInit ==
  \E hs \in {HeapMid, HeapWide}, junk \in {0, 1}, istty \in BOOLEAN :
    Load(Boot(hs, junk, istty, "lr"))

CollectSpec == CollectInit /\ [][CollectNext]_vars

(* The free list. *)

\* the free list of the heap h that starts at free, cell after cell
FreeWalk(h, free) ==
  IF free \notin CellsOf(h) THEN << >>
  ELSE SelectSeq(Walk(<< free >>, NextFree(h), Cardinality(CellsOf(h)) + 1),
                 LAMBDA c : c # NULL)

\* no cell is on it twice
NoCellTwice(seq) ==
  \A m, n \in DOMAIN seq : seq[m] = seq[n] => m = n

\* the cells that the binding list and the protect stack reach
Live ==
  LiveFrom(heap, {},
           ({binding_list} \cup {protect_table[n] : n \in 1..protect_used})
             \cap CellsOf(heap))

\* the collections of the pass
GCs == {g \in Events : trace[g].k = "gc"}

\* the free list between the passes of the loop, and around collections
FreeListClean ==
  /\ status = "run" =>
       /\ NoCellTwice(FreeWalk(heap, free_list))
       /\ FreeCells(heap, free_list) \cap Live = {}
  /\ \A g \in GCs :
       /\ trace[g].free_before = NULL
       /\ NoCellTwice(FreeWalk(trace[g].heap_after, trace[g].free_after))
       /\ FreeCells(trace[g].heap_after, trace[g].free_after)
            \cap LiveFrom(trace[g].heap_after, {}, RootsOf(trace[g])) = {}

\* a pass without a collection puts no cell on the free list
OnlySweepFrees ==
  (\A g \in 1..Len(trace') : trace'[g].k # "gc") =>
    FreeCells(heap', free_list') \subseteq FreeCells(heap, free_list)

\* C23: the free-list invariant.  Outside a collection the free list holds
\* no cell twice and no cell that the binding list or the protect stack
\* reaches; a collection is started only on an empty free list; and only the
\* sweep of a collection puts cells on the free list.
FreeListInvariant ==
  /\ []FreeListClean
  /\ [][OnlySweepFrees]_vars

(* What a collection leaves. *)

\* the collections that have returned to new_cell
ReturnedGCs == {g \in GCs : trace[g].count > 0}

\* the cells that the collection at event g has found reachable
LiveAt(g) == LiveFrom(trace[g].heap_before, {}, RootsOf(trace[g]))

\* C24: the postcondition of a collection.  When a collection returns to
\* new_cell, the free list is made of the cells of the heap that the binding
\* list and the entries of the protect stack did not reach when it began
\* (through the car and the cdr of LIST and LAMBDA cells only), each of them
\* once, and of as many cells as the collection has counted; every cell that
\* was reachable is as it was and not on the free list; and no cell of the
\* heap has its mark bit set.
CollectionPost ==
  \A g \in ReturnedGCs :
    /\ FreeCells(trace[g].heap_after, trace[g].free_after)
         = CellsOf(trace[g].heap_before) \ LiveAt(g)
    /\ NoCellTwice(FreeWalk(trace[g].heap_after, trace[g].free_after))
    /\ Len(FreeWalk(trace[g].heap_after, trace[g].free_after))
         = trace[g].count
    /\ \A c \in LiveAt(g) : Kept(trace[g], c)
    /\ \A c \in CellsOf(trace[g].heap_after) : trace[g].heap_after[c].mark = 0

\* a collection that has returned with cells of both kinds: it has freed
\* some, and it has kept a cell that only the protect stack held
CollectionPostWitness ==
  \E g \in ReturnedGCs :
    /\ trace[g].count > 1
    /\ LiveAt(g) # LiveFrom(trace[g].heap_before, {},
                            {trace[g].binding_list}
                              \cap CellsOf(trace[g].heap_before))
    /\ status = "run"

(* What an allocation does. *)

\* the step is a call of new_cell
AllocStep == trace' # << >> /\ trace'[1].k = "alloc"

\* the list that the call takes its cell from: the free list, or what the
\* collection that the call starts on an empty free list has made of it
AllocHeap == IF free_list # NULL THEN heap ELSE trace'[3].heap_after
AllocFree == IF free_list # NULL THEN free_list ELSE trace'[3].free_after

\* the call can expect a cell: the free list is not empty, or it is and the
\* collection returns
AllocReady ==
  \/ free_list # NULL
  \/ /\ Len(trace') >= 3 /\ trace'[3].k = "gc" /\ trace'[3].count > 0

\* what a call of new_cell in the state that a pass has left must do
AllocContractStep ==
  (AllocStep /\ AllocReady) =>
    /\ status' = "run"
    /\ AllocFree \in CellsOf(AllocHeap)
    /\ trace'[Len(trace')] = [k |-> "new_cell", cell |-> AllocFree,
                              type |-> trace'[1].type]
    /\ free_list' = AllocHeap[AllocFree].car
    /\ heap'[AllocFree] = [type |-> trace'[1].type, mark |-> 0, car |-> NULL,
                           cdr |-> NULL, name |-> "", func |-> ""]
    /\ \A c \in CellsOf(heap) \ {AllocFree} :
         /\ heap'[c].type = AllocHeap[c].type
         /\ heap'[c].car = AllocHeap[c].car
         /\ heap'[c].cdr = AllocHeap[c].cdr

\* the heap has heap_size cells, and setting it up puts them all on the free
\* list
HeapSetUpOnce ==
  /\ init
  /\ CellsOf(heap) = 1..heap_size
  /\ FreeWalk(HeapSetup(Blank(heap_size, 0, TRUE), 0).heap,
              HeapSetup(Blank(heap_size, 0, TRUE), 0).free_list)
       = [c \in 1..heap_size |-> c]

\* C25: the contract of new_cell.  Called with a free list that is not
\* empty, or that a collection has refilled, new_cell takes the first cell
\* off the free list, whose next cell becomes the first, and returns it with
\* the type asked for, car and cdr NULL and the mark bit clear; no other
\* cell changes its type, car or cdr.  The heap is set up once: the first
\* call has put every one of its heap_size cells on the free list, and no
\* later call sets it up again.
AllocContract ==
  /\ []HeapSetUpOnce
  /\ [][AllocContractStep]_vars

(* Collections while a list is parsed. *)

\* the calls of parse_list that have parsed the head of their list
TailCalls == {i \in Events : trace[i].k = "tail_in"}

\* the events of the call entered at event i, strictly after j, at which
\* parse_list calls cons and at which it returns
TailEvents(i, j, kind, used) ==
  {n \in Events : /\ n > j /\ trace[n].k = kind
                  /\ trace[n].protect_used = used}
TailConsOf(i) == TailEvents(i, i, "tail_cons", trace[i].protect_used - 1)
TailOutOf(i) == TailEvents(i, i, "tail_out", trace[i].protect_used - 1)
TailEnd(i) == IF TailOutOf(i) # {} THEN Min(TailOutOf(i)) ELSE Len(trace) + 1
TailParsed(i) ==
  IF {n \in TailConsOf(i) : n < TailEnd(i)} # {}
  THEN Min(TailConsOf(i)) ELSE TailEnd(i)

\* the cells that the protect stack alone reaches when the collection at
\* event g begins
Protected(g) ==
  LiveFrom(trace[g].heap_before, {},
           {trace[g].protect_table[n] : n \in 1..trace[g].protect_used}
             \cap CellsOf(trace[g].heap_before))

\* the collection at event g finds the cells reachable from the protect
\* stack and leaves them as they were
Holds(g, cells) ==
  \A c \in cells \cap CellsOf(heap) : c \in Protected(g) /\ Kept(trace[g], c)

ActualsOf(i, m) == Between(i, m, "arg", trace[i].d)

\* the first place of the name in the list of formals
FirstPlace(names, name) ==
  Min({n \in 1..Len(names) : names[n] = name})

\* C27: in a lambda application the argument expressions are evaluated in
\* the order they are written, each while the binding list is still the
\* one the call was entered with, so that an atom looked up as an argument
\* sees none of the bindings of the formals of this call; the bindings are
\* pushed only after the last argument, and when the body is about to be
\* evaluated every formal name resolves to the value of the argument in the
\* place of the first occurrence of that name.
ArgsBeforeBinding ==
  \A m \in Events :
    trace[m].k = "lambda_bound" =>
      /\ Cardinality(ActualsOf(LambdaIn(m), m))
           <= Len(trace[LambdaIn(m)].arg_exprs)
      /\ \A n \in 1..Cardinality(ActualsOf(LambdaIn(m), m)) :
           /\ trace[Nth(ActualsOf(LambdaIn(m), m), n)].expr
                = trace[LambdaIn(m)].arg_exprs[n]
           /\ trace[Nth(ActualsOf(LambdaIn(m), m), n)].binding_list
                = trace[LambdaIn(m)].binding_list
      /\ \A l \in Between(LambdaIn(m), m, "lookup", trace[m].d + 1) :
           Shape(trace[l].env) = Shape(trace[LambdaIn(m)].env)
      /\ trace[m].body =>
           \A n \in 1..Len(trace[LambdaIn(m)].names) :
             Resolved(trace[m].env, trace[LambdaIn(m)].names[n])
               = trace[Nth(ArgsOf(LambdaIn(m), m),
                           FirstPlace(trace[LambdaIn(m)].names,
                                      trace[LambdaIn(m)].names[n]))].v

\* ((lambda (x x) x) 'a 'b) has evaluated both arguments, to different
\* values, before the body, and has given a, the value of the first
ArgsBeforeBindingWitness ==
  /\ Reads(LineTwice)
  /\ Yields("a")
  /\ \E m \in Events :
       /\ trace[m].k = "lambda_bound"
       /\ trace[m].body
       /\ Len(trace[LambdaIn(m)].names) = 2
       /\ trace[LambdaIn(m)].names[1] = trace[LambdaIn(m)].names[2]
       /\ Cardinality(ActualsOf(LambdaIn(m), m)) = 2
       /\ trace[Nth(ArgsOf(LambdaIn(m), m), 1)].v
            # trace[Nth(ArgsOf(LambdaIn(m), m), 2)].v

\* nothing is evaluated and nothing is printed on the output strictly
\* between the events a and b
Quiet(a, b) ==
  \A e \in Events :
    (a < e /\ e < b) => trace[e].k \notin {"eval_in", "printf"}

\* the event after which the n-th formal of the call entered at i is bound
BoundAfter(i, m, n) ==
  IF n = 1 THEN i ELSE Nth(ArgsOf(i, m), n - 1)

\* C28: a lambda application evaluates no more argument expressions than
\* the lambda has formals and than the call has arguments; when no argument
\* has failed it evaluates exactly the smaller of the two numbers, binds
\* every formal, a formal without an argument to nil without evaluating or
\* printing anything for it, and goes on to evaluate the body; with no
\* formals it evaluates no argument and leaves the binding list as it was.
ArityTolerant ==
  \A m \in Events :
    trace[m].k = "lambda_bound" =>
      /\ Cardinality(ActualsOf(LambdaIn(m), m))
           <= Min({Len(trace[LambdaIn(m)].names),
                   Len(trace[LambdaIn(m)].arg_exprs)})
      /\ Cardinality(Between(LambdaIn(m), m, "eval_in", trace[m].d + 1))
           = Cardinality(ActualsOf(LambdaIn(m), m))
      /\ FailedArgs(LambdaIn(m), m) = {} =>
           /\ trace[m].body
           /\ Cardinality(ActualsOf(LambdaIn(m), m))
                = Min({Len(trace[LambdaIn(m)].names),
                       Len(trace[LambdaIn(m)].arg_exprs)})
           /\ trace[m].count = Len(trace[LambdaIn(m)].names)
           /\ Cardinality(ArgsOf(LambdaIn(m), m)) = trace[m].count
           /\ Len(trace[m].env)
                = trace[m].count + Len(trace[LambdaIn(m)].env)
           /\ \A n \in 1..trace[m].count :
                n > Len(trace[LambdaIn(m)].arg_exprs) =>
                  /\ trace[m].env[n].atom = trace[LambdaIn(m)].names[n]
                  /\ trace[m].env[n].value = nil_cell
                  /\ Quiet(BoundAfter(LambdaIn(m), m, n),
                           Nth(ArgsOf(LambdaIn(m), m), n))
           /\ Quiet(BoundAfter(LambdaIn(m), m, trace[m].count + 1), m)
           /\ trace[m].count = 0 =>
                /\ trace[m].binding_list = trace[LambdaIn(m)].binding_list
                /\ Quiet(LambdaIn(m), m)

\* ((lambda (x y) y) 'a) has bound y, which has no argument, to nil and has
\* given nil
ArityTolerantWitness ==
  /\ Reads(LineFew)
  /\ Results = {nil_cell}
  /\ \E m \in Events :
       /\ trace[m].k = "lambda_bound"
       /\ trace[m].body
       /\ trace[m].count = 2
       /\ Len(trace[LambdaIn(m)].arg_exprs) = 1
       /\ trace[m].env[2].value = nil_cell

\* the call of set that the event i belongs to
SetCall(i) ==
  Max({c \in Events : c < i /\ trace[c].k = "vfunc" /\ trace[c].f = "set"})

\* C29: set never changes the shape of the binding list.  A call of set
\* with an atom and a value that is not the error cell finds the first pair
\* of the atom on the binding list and stores the value in it: the list has
\* the same list cells, pairs and atoms afterwards, every other pair keeps
\* its value, nothing is inserted in front, and the call returns the value.
\* A call of set whose first argument is not an atom returns the error cell
\* and leaves the binding list as it was.
SetKeepsShape ==
  /\ \A i \in Events : trace[i].k # "set_insert"
  /\ \A i \in Events :
       trace[i].k = "set" =>
         /\ ~trace[i].inserted
         /\ FirstOf(trace[i].env_before, trace[i].atom) # 0
         /\ trace[i].pair
              = trace[i].env_before[FirstOf(trace[i].env_before,
                                            trace[i].atom)].pair
         /\ Shape(trace[i].env) = Shape(trace[i].env_before)
         /\ \A n \in 1..Len(trace[i].env) :
              trace[i].env[n].value
                = IF trace[i].env[n].pair = trace[i].pair
                  THEN trace[i].value
                  ELSE trace[i].env_before[n].value
         /\ trace[SetCall(i)].a = trace[i].atom
         /\ trace[SetCall(i)].b = trace[i].value
         /\ CallValue(SetCall(i)) = trace[i].value
  /\ \A i \in Events :
       (/\ trace[i].k = "vfunc" /\ trace[i].f = "set"
        /\ trace[i].a # error_cell /\ trace[i].b # error_cell
        /\ OutAfter(i, trace[i].d) # 0) =>
         \/ trace[i + 1].k = "set"
         \/ /\ trace[i + 2].k = "set_refused"
            /\ trace[i + 2].type # "ATOM"
            /\ trace[i + 2].atom = trace[i].a
            /\ CallValue(i) = error_cell
            /\ \A j \in Events :
                 (j > i + 2 /\ j <= OutAfter(i, trace[i].d)) =>
                   trace[j].k = "eval_out"

(* The error cell and the names of the input. *)

\* the tokens are whole expressions: atoms and lists that are closed, with
\* quote markers only in front of an atom or a list
Balanced(tokens) ==
  /\ tokens # << >>
  /\ Nesting(tokens, Len(tokens)) = 0
  /\ \A n \in 1..Len(tokens) :
       /\ Nesting(tokens, n) >= 0
       /\ tokens[n] = "'" => (n < Len(tokens) /\ tokens[n + 1] # ")")

\* the lengths of the beginnings of the input that are whole expressions
Wholes(input) ==
  {n \in 1..Len(input) : Balanced(SubSeq(input, 1, n))}

\* what the parser had in front of it when it read the expression of the
\* event r
InputOf(r) == trace[r].tokens \o trace[r].rest

\* C30: the error cell cannot be named by input.  The parser returns the
\* error cell only after it has printed a parse error; when the input
\* begins with a whole expression made of atoms, quote markers and balanced
\* parentheses, the parser reads exactly that expression, prints no
\* diagnostic and returns a structure that is not the error cell; and
\* new_atom never returns the error cell for a token.
ErrorNotNameable ==
  /\ \A r \in ReadEvents :
       /\ trace[r].expr = error_cell => ParseErrors(r) # {}
       /\ Wholes(InputOf(r)) # {} =>
            /\ trace[r].tokens
                 = SubSeq(InputOf(r), 1, Min(Wholes(InputOf(r))))
            /\ trace[r].expr # error_cell
            /\ ParseErrors(r) = {}
  /\ \A n \in Events :
       trace[n].k = "new_atom" => trace[n].cell # error_cell

====
